---- MODULE Spec2Model ----
(***************************************************************************)
(* Rate synchronisation of the BCV Dollar Calculator extension:            *)
(* background.js (service worker), the rate cache in chrome.storage.local, *)
(* the recurring alarm, and the two controllers that observe the cache.    *)
(*                                                                         *)
(* Time is counted in minutes.  Rates are counted in hundredths of a       *)
(* bolivar (36.50 is 3650); a percentage is counted in thousandths of a    *)
(* percent, truncated.                                                     *)
(***************************************************************************)
EXTENDS Integers, Sequences, FiniteSets, TLC

REFRESH_INTERVAL_MINUTES == 60

\* Bounds of the model.
MaxTime == 61
MaxInbox == 1
MaxTimeUI == 10

\* The instants at which the clock is observed: an entry can be 0, 1, 10,
\* 50, 51, 60 or 61 minutes old.
Instants ==
  {t \in {0, 10, REFRESH_INTERVAL_MINUTES, REFRESH_INTERVAL_MINUTES + 1} : t <= MaxTime}

Kinds == {"install", "startup", "alarm"}
Controllers == {"popup", "sidepanel"}

NoEntry == [absent |-> TRUE]
NoAlarm == [absent |-> TRUE]

(***************************************************************************)
(* The remote source.  A response is a network failure, a non-2xx status,  *)
(* a body that is not JSON, or a JSON body; a body field is a number, a     *)
(* numeric literal too large for a double (JSON.parse makes it Infinity),  *)
(* a string, null or missing.                                              *)
(***************************************************************************)
Num(v) == [tag |-> "number", val |-> v]
Overflow == [tag |-> "overflow"]
Str(s) == [tag |-> "string", val |-> s]
JsNull == [tag |-> "null"]
Undefined == [tag |-> "undefined"]

\* JavaScript numbers that are not finite.
Infinity == [tag |-> "infinity"]
NegInfinity == [tag |-> "-infinity"]
NaN == [tag |-> "nan"]

\* The ISO date string of instant t.
DateStr(t) == [tag |-> "date", val |-> t]

Body(p, q, d) == [kind |-> "json", price |-> p, price_old |-> q, fetch_date |-> d]

Responses ==
  { [kind |-> "network_error"],
    Body(Num(3650), Num(3610), DateStr(0)),
    Body(Num(0), Num(0), DateStr(0)) }

\* The strings a body field is given here.
Strings == {"36.50", "abc", "Infinity"}

\* parseFloat of a string: the number its longest numeric prefix denotes,
\* Infinity for "Infinity", NaN when there is no such prefix.
ParseString(s) ==
  CASE s = "36.50" -> [nan |-> FALSE, inf |-> FALSE, val |-> 3650]
    [] s = "0" -> [nan |-> FALSE, inf |-> FALSE, val |-> 0]
    [] s = "Infinity" -> [nan |-> FALSE, inf |-> TRUE, val |-> 0]
    [] OTHER -> [nan |-> TRUE, inf |-> FALSE, val |-> 0]

\* parseFloat: a number parses to itself, a string as above, null and
\* undefined to NaN.
parseFloat(x) ==
  CASE x.tag = "number" -> [nan |-> FALSE, inf |-> FALSE, val |-> x.val]
    [] x.tag = "overflow" -> [nan |-> FALSE, inf |-> TRUE, val |-> 0]
    [] x.tag = "string" -> ParseString(x.val)
    [] OTHER -> [nan |-> TRUE, inf |-> FALSE, val |-> 0]

\* What JavaScript takes for false in `x || y`: undefined, null, the empty
\* string, 0 and NaN.
Falsy(x) ==
  \/ x.tag \in {"undefined", "null", "nan"}
  \/ x.tag = "string" /\ x.val = ""
  \/ x.tag = "number" /\ "val" \in DOMAIN x /\ x.val = 0
  \/ x.tag = "number" /\ "m" \in DOMAIN x /\ x.m = 0

\* A record always dated with the current time.
DateOrNow_AlwaysNow(d, n) == n

\* api.js:48  data.fetch_date || new Date().toISOString()
DateOrNow(d, n) == IF Falsy(d) THEN n ELSE d.val

\* A percentage taken of the current rate.
RateRecord_PctOfCurrent(cur, prev, d) ==
  [currentRate |-> cur,
   previousRate |-> prev,
   date |-> d,
   change |-> cur - prev,
   changePercentage |-> IF cur # 0 THEN ((cur - prev) * 100000) \div cur ELSE 0]

\* api.js fetchBCVRate: the record returned, or thrown = TRUE.  A record
\* whose rates are Infinity is returned as finite = FALSE, its fields left
\* out.
RateRecord(cur, prev, d) ==
  [currentRate |-> cur,
   previousRate |-> prev,
   date |-> d,
   change |-> cur - prev,
   changePercentage |-> IF prev # 0 THEN ((cur - prev) * 100000) \div prev ELSE 0]

fetchBCVRate(r, n) ==
  IF r.kind # "json" THEN [thrown |-> TRUE]
  ELSE IF r.price = Undefined \/ r.price_old = Undefined THEN [thrown |-> TRUE]
  ELSE IF parseFloat(r.price).nan \/ parseFloat(r.price_old).nan THEN [thrown |-> TRUE]
  ELSE IF parseFloat(r.price).inf \/ parseFloat(r.price_old).inf
    THEN [thrown |-> FALSE, finite |-> FALSE]
  ELSE [thrown |-> FALSE, finite |-> TRUE,
        value |-> RateRecord(parseFloat(r.price).val, parseFloat(r.price_old).val,
                             DateOrNow(r.fetch_date, n))]

\* background.js:22  rateData && rateData.currentRate
IsValidRateData(rateData) == rateData.currentRate # 0

\* A stamp taken from the record's own date instead of the clock.
DataToStore_DateStamp(rateData, n) ==
  [currentRate |-> rateData.currentRate,
   previousRate |-> rateData.previousRate,
   date |-> rateData.date,
   change |-> rateData.change,
   changePercentage |-> rateData.changePercentage,
   lastFetchedByBackground |-> rateData.date]

\* background.js:23-26  { ...rateData, lastFetchedByBackground: now }
DataToStore(rateData, n) ==
  [currentRate |-> rateData.currentRate,
   previousRate |-> rateData.previousRate,
   date |-> rateData.date,
   change |-> rateData.change,
   changePercentage |-> rateData.changePercentage,
   lastFetchedByBackground |-> n]

\* The storage write placed after the try block.
TryCovers_FetchOnly == {"fetch"}

\* background.js:20-43  the awaits of fetchAndStoreRate inside its try block.
TryCovers == {"fetch", "set"}

\* The comparison written with >= .
IsStale_AtLeast(lastFetch, n) == (n - lastFetch) >= REFRESH_INTERVAL_MINUTES

\* background.js:98  data older than the refresh interval.
IsStale(lastFetch, n) == (n - lastFetch) > REFRESH_INTERVAL_MINUTES

\* background.js:94-107  the startup decision on the result of storage.get.
NeedsFetchOnStartup(result, n) ==
  IF result # NoEntry
    THEN IsStale(result.lastFetchedByBackground, n)
    ELSE TRUE

\* The alarmInfo of the three chrome.alarms.create calls.
RearmAlarmInfo_Minutely == [periodInMinutes |-> 1]
RearmAlarmInfo == [periodInMinutes |-> REFRESH_INTERVAL_MINUTES]
InstallAlarmInfo == [delayInMinutes |-> 1, periodInMinutes |-> REFRESH_INTERVAL_MINUTES]
StartupAlarmInfo == [delayInMinutes |-> 1, periodInMinutes |-> REFRESH_INTERVAL_MINUTES]

\* chrome.alarms.get: what the callback will be given.
Lookup(a) == IF a = NoAlarm THEN "missing" ELSE "found"

\* A callback that never creates the alarm.
RearmCallbackAlarm_Never(found, a) == a

\* background.js:30-35  the callback of fetchAndStoreRate's chrome.alarms.get.
RearmCallbackAlarm(found, a) == IF found = "missing" THEN RearmAlarmInfo ELSE a

\* background.js:111-121  the callback of the startup handler's chrome.alarms.get.
VerifyCallbackAlarm(found, a) == IF found = "missing" THEN StartupAlarmInfo ELSE a

\* An install handler that leaves the alarm to fetchAndStoreRate.
AfterFetchAndStore_NoCreate(k, a) == a

\* What the handler of kind k does once `await fetchAndStoreRate()` has
\* returned: onInstalled creates the alarm (background.js:73-76), the others
\* do nothing more.
AfterFetchAndStore(k, a) == IF k = "install" THEN InstallAlarmInfo ELSE a

\* A catch block that calls fetchBCVRate again.
PcAfterFailure_Retry == "fetch"

\* background.js:39-43  after the catch block fetchAndStoreRate returns.
PcAfterFailure == "done"

\* A write that keeps the stamp of the entry already stored.
StoredValue_Merge(old, new) ==
  IF old = NoEntry THEN new
  ELSE [new EXCEPT !.lastFetchedByBackground = old.lastFetchedByBackground]

\* chrome.storage.local.set({ [RATE_DATA_KEY]: dataToStore }): the value
\* under the key after the write, given the value before it.
StoredValue(old, new) == new

(***************************************************************************)
(* storage.js: the conversion history kept in localStorage under           *)
(* HISTORY_KEY, as the list that the stored JSON text denotes.  The store   *)
(* accepts every write: ten records are far below the quota.               *)
(***************************************************************************)
MAX_HISTORY_ITEMS == 10

\* typeof x === 'number'
TypeofNumber(x) == x.tag \in {"number", "infinity", "-infinity", "nan"}

\* localStorage.getItem of a key that is not there, and the item whose
\* text denotes list l.
NoItem == [present |-> FALSE, list |-> <<>>]
Item(l) == [present |-> TRUE, list |-> l]

\* What JSON.stringify followed by JSON.parse makes of a value: a number
\* that is not finite becomes null.
JsonValue(x) == IF x.tag \in {"infinity", "-infinity", "nan"} THEN JsNull ELSE x
JsonRecord(rec) == [f \in DOMAIN rec |-> JsonValue(rec[f])]

\* A stored string that JSON.parse rejects.
Unparsable == [present |-> TRUE, parses |-> FALSE]

\* A reader that hands on the text it could not parse.
getConversionHistory_RawText(item) ==
  IF ~item.present THEN <<>>
  ELSE IF item = Unparsable THEN <<[text |-> Str("abc")]>>
  ELSE item.list

\* storage.js:24-32  getConversionHistory: [] when nothing is stored, and
\* from the catch block when JSON.parse throws.
getConversionHistory(item) ==
  IF ~item.present THEN <<>>
  ELSE IF item = Unparsable THEN <<>>
  ELSE item.list

\* storage.js:49  the guard of addConversionToHistory; a conversion that is
\* undefined is given here as Undefined.
IsConversion(conversion) ==
  /\ conversion # Undefined
  /\ "fromAmount" \in DOMAIN conversion /\ TypeofNumber(conversion.fromAmount)
  /\ "toAmount" \in DOMAIN conversion /\ TypeofNumber(conversion.toAmount)

\* A timestamp that the caller's own field replaces.
HistoryItem_CallerWins(conversion, n) ==
  [f \in (DOMAIN conversion) \cup {"timestamp"} |->
     IF f \in DOMAIN conversion THEN conversion[f] ELSE DateStr(n)]

\* storage.js:54-57  { ...conversion, timestamp: new Date().toISOString() }
HistoryItem(conversion, n) ==
  [f \in (DOMAIN conversion) \cup {"timestamp"} |->
     IF f = "timestamp" THEN DateStr(n) ELSE conversion[f]]

\* A truncation that keeps the oldest records.
Truncate_KeepOldest(h) ==
  IF Len(h) > MAX_HISTORY_ITEMS
    THEN SubSeq(h, Len(h) - MAX_HISTORY_ITEMS + 1, Len(h))
    ELSE h

\* storage.js:62-64  history.slice(0, MAX_HISTORY_ITEMS)
Truncate(h) ==
  IF Len(h) > MAX_HISTORY_ITEMS THEN SubSeq(h, 1, MAX_HISTORY_ITEMS) ELSE h

\* storage.js:48-72  addConversionToHistory: the item stored afterwards.
addConversionToHistory(item, conversion, n) ==
  IF ~IsConversion(conversion) THEN item
  ELSE LET unshifted == <<HistoryItem(conversion, n)>> \o getConversionHistory(item)
       IN  Item([i \in 1..Len(Truncate(unshifted)) |-> JsonRecord(Truncate(unshifted)[i])])

\* What the last call of addConversionToHistory was given and returned:
\* undefined (defined is FALSE) or an array.
NoReturn == [called |-> FALSE, arg |-> Undefined, defined |-> FALSE, value |-> <<>>]

\* storage.js:49-52, 59-67  addConversionToHistory: the value returned, the
\* array in memory that was handed to JSON.stringify.
AppendReturn(item, conversion, n) ==
  [called |-> TRUE,
   arg |-> conversion,
   defined |-> IsConversion(conversion),
   value |-> IF IsConversion(conversion)
               THEN Truncate(<<HistoryItem(conversion, n)>> \o getConversionHistory(item))
               ELSE <<>>]

\* A clear that keeps the newest record.
clearConversionHistory_KeepNewest(item) ==
  IF item.present THEN Item(SubSeq(item.list, 1, 1)) ELSE NoItem

\* storage.js:79-85  clearConversionHistory: localStorage.removeItem
clearConversionHistory(item) == NoItem

(***************************************************************************)
(* calculator.js.  Its arguments are JavaScript numbers: binary floating    *)
(* point, here with MantissaBits bits of precision and exponents from      *)
(* MinExponent to MaxExponent, rounded to nearest, ties to even, as IEEE    *)
(* 754 doubles are with 53 bits.  Float(m, e) is m * 2^e; the finite        *)
(* numbers used are zero and the positive ones.                             *)
(***************************************************************************)
MantissaBits == 3
MaxExponent == 2
MinExponent == 0 - MaxExponent

Float(m, e) == [tag |-> "number", m |-> m, e |-> e]
Zero == Float(0, MinExponent)

Floats ==
  {Zero}
    \cup {Float(m, MinExponent) : m \in 1..(2^(MantissaBits - 1) - 1)}
    \cup {Float(m, e) : m \in (2^(MantissaBits - 1))..(2^MantissaBits - 1),
                        e \in MinExponent..MaxExponent}

IsFinite(x) == x.tag = "number"

\* The number of bits of a positive integer.
BitLength(M) == CHOOSE b \in 1..64 : 2^(b - 1) <= M /\ M < 2^b

\* The float nearest to M * 2^E (M >= 0), ties to even; Infinity beyond the
\* largest float.
RoundFloat(M, E) ==
  IF M = 0 THEN Zero
  ELSE
    LET k0 == BitLength(M) - MantissaBits
        k == IF E + k0 < MinExponent THEN MinExponent - E ELSE k0
    IN  IF k <= 0
          THEN IF E + k > MaxExponent THEN Infinity ELSE Float(M * 2^(0 - k), E + k)
          ELSE
            LET q == M \div 2^k
                r == M % 2^k
                half == 2^(k - 1)
                q1 == IF r > half \/ (r = half /\ q % 2 = 1) THEN q + 1 ELSE q
                m2 == IF q1 = 2^MantissaBits THEN 2^(MantissaBits - 1) ELSE q1
                e2 == IF q1 = 2^MantissaBits THEN E + k + 1 ELSE E + k
            IN  IF q1 = 0 THEN Zero
                ELSE IF e2 > MaxExponent THEN Infinity
                ELSE Float(m2, e2)

\* x * y for numbers; for two numbers given in hundredths (Num) the product
\* in hundredths, to the hundredth below.
Times(x, y) ==
  CASE x.tag = "nan" \/ y.tag = "nan" -> NaN
    [] "val" \in DOMAIN x /\ "val" \in DOMAIN y -> Num((x.val * y.val) \div 100)
    [] IsFinite(x) /\ IsFinite(y) -> RoundFloat(x.m * y.m, x.e + y.e)
    [] (IsFinite(x) /\ x.m = 0) \/ (IsFinite(y) /\ y.m = 0) -> NaN
    [] x.tag = y.tag \/ IsFinite(x) \/ IsFinite(y) ->
         IF "-infinity" \in {x.tag, y.tag} /\ x.tag # y.tag THEN NegInfinity ELSE Infinity
    [] OTHER -> NegInfinity

\* x / y for numbers; for two numbers given in hundredths (Num) the
\* quotient in hundredths, to the hundredth below.
DividedBy(x, y) ==
  CASE x.tag = "nan" \/ y.tag = "nan" -> NaN
    [] "val" \in DOMAIN x /\ "val" \in DOMAIN y ->
         IF y.val = 0 THEN (IF x.val = 0 THEN NaN ELSE Infinity)
         ELSE Num((x.val * 100) \div y.val)
    [] IsFinite(x) /\ IsFinite(y) ->
         IF y.m = 0 THEN (IF x.m = 0 THEN NaN ELSE Infinity)
         ELSE LET guard == 2 * MantissaBits + 4
                  Q == (x.m * 2^guard) \div y.m
                  R == (x.m * 2^guard) % y.m
              IN  RoundFloat(2 * Q + (IF R # 0 THEN 1 ELSE 0), x.e - y.e - guard - 1)
    [] IsFinite(y) -> x
    [] IsFinite(x) -> Zero
    [] OTHER -> NaN

\* x < y for numbers.
LessThan(x, y) ==
  CASE x.tag = "nan" \/ y.tag = "nan" -> FALSE
    [] IsFinite(x) /\ IsFinite(y) ->
         x.m * 2^(x.e - MinExponent) < y.m * 2^(y.e - MinExponent)
    [] x.tag = y.tag -> FALSE
    [] OTHER -> x.tag = "-infinity" \/ y.tag = "infinity"

\* ToNumber, as the relational operators and isNaN apply it: of the strings
\* used here "6" denotes a number.
ToNumber(x) ==
  CASE TypeofNumber(x) -> x
    [] x = Str("6") -> Float(6, 0)
    [] x = JsNull -> Zero
    [] OTHER -> NaN

\* isNaN(x)
isNaN(x) == ToNumber(x).tag = "nan"

\* The number 0 returned for arguments given in hundredths or as floats.
ReturnZero(amount, rate) ==
  IF \E x \in {amount, rate} : x.tag = "number" /\ "val" \in DOMAIN x
    THEN Num(0)
    ELSE Zero

\* The two conversions taken for each other.
convertUSDtoBs_Divides(amount, rate) ==
  IF Falsy(amount) \/ isNaN(amount) \/ Falsy(rate) \/ isNaN(rate)
    THEN ReturnZero(amount, rate)
    ELSE DividedBy(ToNumber(amount), ToNumber(rate))

\* calculator.js:11-17  convertUSDtoBs
convertUSDtoBs(amount, rate) ==
  IF Falsy(amount) \/ isNaN(amount) \/ Falsy(rate) \/ isNaN(rate)
    THEN ReturnZero(amount, rate)
    ELSE Times(ToNumber(amount), ToNumber(rate))

\* calculator.js:25-31  convertBstoUSD
convertBstoUSD(amount, rate) ==
  IF Falsy(amount) \/ isNaN(amount) \/ Falsy(rate) \/ isNaN(rate) \/ rate = Zero
    THEN ReturnZero(amount, rate)
    ELSE DividedBy(ToNumber(amount), ToNumber(rate))

\* x < y as JavaScript evaluates it: two strings are compared as strings
\* ("6" sorts before "abc"), anything else as numbers.
Less(x, y) ==
  IF x.tag = "string" /\ y.tag = "string"
    THEN x.val = "6" /\ y.val = "abc"
    ELSE LessThan(ToNumber(x), ToNumber(y))

\* calculator.js:81-89  getRateChangeType
getRateChangeType(currentRate, previousRate) ==
  IF Less(previousRate, currentRate) THEN "increase"
  ELSE IF Less(currentRate, previousRate) THEN "decrease"
  ELSE "same"

VARIABLES
  now,        \* the clock, in minutes
  installed,  \* the extension has been installed
  cache,      \* chrome.storage.local[RATE_DATA_KEY]
  alarm,      \* the alarm named FETCH_ALARM_NAME, or NoAlarm
  bg,         \* the handler of each kind running in the service worker
  ctl,        \* the popup and the side panel
  inbox,      \* storage.onChanged events not yet delivered to a controller
  fetcher,    \* one invocation of fetchBCVRate on its own
  history,    \* localStorage[HISTORY_KEY] and what has been done to it
  calc,       \* the last call of a function of calculator.js
  form        \* the conversion section of the popup

vars == <<now, installed, cache, alarm, bg, ctl, inbox, fetcher, history, calc, form>>

\* ui.js currentState.mode, .amount and .result as declared, the values of
\* the two amount inputs, and the items the history list shows.
InitialForm ==
  [mode |-> "usd-to-bs", amount |-> Str(""), result |-> JsNull,
   fromInput |-> "", toInput |-> "", shown |-> <<>>]

\* A rate section whose rendering also resets the conversion section.
renderRateData_Resets(f) == [f EXCEPT !.fromInput = "", !.toInput = "", !.result = JsNull]

\* ui.js renderRateData: it writes to the elements of the rate section only.
renderRateData(f) == f

\* ui.js updateConversionUI: both inputs and the result are cleared.
updateConversionUI(f) == [f EXCEPT !.fromInput = "", !.toInput = "", !.result = JsNull]

\* ui.js renderHistory: the list shows what getConversionHistory returns.
renderHistory(f, item) == [f EXCEPT !.shown = getConversionHistory(item)]

\* ui.js renderUI
renderUI(f, item) == renderHistory(updateConversionUI(renderRateData(f)), item)

\* The call of a function of calculator.js whose value is in use, if any.
\* op: "none", "convert" or "changeType"; a, b: the arguments (amount and
\* rate, or currentRate and previousRate); result: the number convert
\* returned; back: what converting the result back with the same rate
\* returned; changeType: what getRateChangeType returned.
NoCall ==
  [op |-> "none", direction |-> "none", a |-> Undefined, b |-> Undefined,
   result |-> Undefined, back |-> Undefined, changeType |-> "none"]

\* stored: the item under HISTORY_KEY.  appended: the conversions accepted
\* since the last clear, newest first, each with the time of its call.
\* cleared: no conversion was accepted since the last clear.  listed: what
\* the last operation returned, when it was getConversionHistory.
NotListed == [done |-> FALSE, value |-> <<>>]
Listed(l) == [done |-> TRUE, value |-> l]
EmptyHistory ==
  [stored |-> NoItem, appended |-> <<>>, cleared |-> FALSE, listed |-> NotListed,
   returned |-> NoReturn]

\* pc: "idle", "awaiting" (fetch(API_URL) is in flight), "returned".
\* calls: the network calls of this invocation; response: what the remote
\* source answered; result: what fetchBCVRate returned or that it threw.
IdleFetcher ==
  [pc |-> "idle", calls |-> 0, response |-> [kind |-> "none"],
   result |-> [thrown |-> FALSE, finite |-> FALSE], at |-> 0]

\* One handler invocation.  pc: "idle", "get" (awaiting storage.get),
\* "fetch" (awaiting fetchBCVRate), "set" (awaiting storage.set), "done".
\* rearm / verify: "none", or the pending result of chrome.alarms.get
\* ("found", "missing"), or "ran" once its callback has run.
\* The rest records what the invocation did: attempts (calls of
\* fetchBCVRate that completed), fetchOk (fetchBCVRate returned), valid (the
\* record passed the check of line 22), rejected (storage.set rejected),
\* wrote (storage.set resolved), escaped (an error left the handler),
\* alarmAtStart (the alarm when the event was dispatched).
IdleTask ==
  [pc |-> "idle", result |-> NoEntry, data |-> NoEntry,
   rearm |-> "none", verify |-> "none",
   attempts |-> 0, fetchOk |-> FALSE, valid |-> FALSE, rejected |-> FALSE,
   wrote |-> FALSE, escaped |-> FALSE, alarmAtStart |-> NoAlarm]

Quiet(k) ==
  /\ bg[k].pc \in {"idle", "done"}
  /\ bg[k].rearm \in {"none", "ran"}
  /\ bg[k].verify \in {"none", "ran"}

FullyHandled(k) == bg[k].pc = "done" /\ Quiet(k)

(***************************************************************************)
(* The controllers: the popup (ui.js) and the side panel (sidepanel.js).   *)
(***************************************************************************)
\* A date that is null.
Null == 0 - 1

\* ui.js currentState as declared, and sidepanel.js currentRateData as
\* declared (it has no rate fields yet).
InitialRate(c) ==
  IF c = "popup"
    THEN [currentRate |-> 0, previousRate |-> 0, date |-> Null, change |-> 0,
          changePercentage |-> 0, lastFetchedByBackground |-> Null]
    ELSE [lastFetchedByBackground |-> Null]

\* pc: "closed", "get" (awaiting storage.get), "fetch" (awaiting
\* fetchBCVRate), "set" (storage.set issued), "written" (the write is
\* applied, its promise not yet resolved), "fallback" (awaiting the
\* storage.get of the catch block), "idle".
\* view: what the rate section shows: "loading", "error" or "data".
\* own: the positions in the controller's inbox of the change events that
\* its own writes caused.
Closed(c) ==
  [open |-> FALSE, pc |-> "closed", result |-> NoEntry, data |-> NoEntry,
   rate |-> InitialRate(c), isCachedData |-> FALSE, view |-> "loading",
   own |-> {}]

\* An update that forgets lastFetchedByBackground.
UpdateRate_NoStamp(c, rateData) ==
  [currentRate |-> rateData.currentRate,
   previousRate |-> rateData.previousRate,
   date |-> rateData.date,
   change |-> rateData.change,
   changePercentage |-> rateData.changePercentage,
   lastFetchedByBackground |-> Null]

\* An update that takes the rates and leaves the stored change behind.
UpdateRate_KeepChange(c, rateData) ==
  [currentRate |-> rateData.currentRate,
   previousRate |-> rateData.previousRate,
   date |-> rateData.date,
   change |-> 0,
   changePercentage |-> rateData.changePercentage,
   lastFetchedByBackground |-> rateData.lastFetchedByBackground]

\* ui.js updateStateWithRateData / sidepanel.js updateLocalRateData.
UpdateRate(c, rateData) ==
  [currentRate |-> rateData.currentRate,
   previousRate |-> rateData.previousRate,
   date |-> rateData.date,
   change |-> rateData.change,
   changePercentage |-> rateData.changePercentage,
   lastFetchedByBackground |-> rateData.lastFetchedByBackground]

\* A reader that takes every result for a missing entry.
IsStoredData_Never(result) == FALSE

\* storedData && storedData.currentRate !== undefined
IsStoredData(result) == result # NoEntry

\* storage.onChanged listener: namespace === 'local' && changes[RATE_DATA_KEY]
\* with a newValue; the flag it passes as isCached.
ChangeIsCached == TRUE

\* Only the popup reads the cache again after a failed live fetch
\* (ui.js loadData catch block); the side panel stays in its error state.
HasFallback(c) == c = "popup"

\* Only the popup has a refresh button.
HasRefresh(c) == c = "popup"

Init ==
  /\ now = 0
  /\ installed = FALSE
  /\ cache = NoEntry
  /\ alarm = NoAlarm
  /\ bg = [k \in Kinds |-> IdleTask]
  /\ ctl = [c \in Controllers |-> Closed(c)]
  /\ inbox = [c \in Controllers |-> <<>>]
  /\ fetcher = IdleFetcher
  /\ history = EmptyHistory
  /\ calc = NoCall
  /\ form = InitialForm

\* chrome.storage.onChanged: a write sends every open controller, the
\* writer included, a change event carrying the new value.
Notified(entry) ==
  [c \in Controllers |-> IF ctl[c].open THEN Append(inbox[c], entry) ELSE inbox[c]]

InboxRoom == \A c \in Controllers : Len(inbox[c]) < MaxInbox

Tick ==
  /\ \E t \in Instants : t > now /\ now' = t
  /\ UNCHANGED <<form, calc, history, fetcher, installed, cache, alarm, bg, ctl, inbox>>

\* chrome.runtime.onInstalled (background.js:69-78), up to its first await.
OnInstalled ==
  /\ Quiet("install")
  /\ installed' = TRUE
  /\ bg' = [bg EXCEPT !["install"] =
              [IdleTask EXCEPT !.pc = "fetch", !.alarmAtStart = alarm]]
  /\ UNCHANGED <<form, calc, history, fetcher, now, cache, alarm, ctl, inbox>>

\* chrome.alarms.onAlarm (background.js:53-58), up to its first await.
OnAlarm ==
  /\ installed
  /\ alarm # NoAlarm
  /\ Quiet("alarm")
  /\ bg' = [bg EXCEPT !["alarm"] =
              [IdleTask EXCEPT !.pc = "fetch", !.alarmAtStart = alarm]]
  /\ UNCHANGED <<form, calc, history, fetcher, now, installed, cache, alarm, ctl, inbox>>

\* A restart that loses the stored entry.
OnStartup_ClearsStorage ==
  /\ installed
  /\ \E dropped \in BOOLEAN :
       /\ alarm' = IF dropped THEN NoAlarm ELSE alarm
       /\ bg' = [k \in Kinds |->
                   IF k = "startup"
                     THEN [IdleTask EXCEPT !.pc = "get", !.result = cache,
                                           !.verify = Lookup(alarm'),
                                           !.alarmAtStart = alarm']
                     ELSE IdleTask]
  /\ ctl' = [c \in Controllers |-> Closed(c)]
  /\ inbox' = [c \in Controllers |-> <<>>]
  /\ cache' = NoEntry
  /\ form' = InitialForm
  /\ UNCHANGED <<calc, history, fetcher, now, installed>>

\* The browser restarts: every extension context of the previous session is
\* gone, the host may have dropped the alarm, and chrome.runtime.onStartup
\* (background.js:89-122) runs up to the end of the listener: storage.get
\* and alarms.get are issued, their callbacks are pending.
OnStartup ==
  /\ installed
  /\ \E dropped \in BOOLEAN :
       /\ alarm' = IF dropped THEN NoAlarm ELSE alarm
       /\ bg' = [k \in Kinds |->
                   IF k = "startup"
                     THEN [IdleTask EXCEPT !.pc = "get", !.result = cache,
                                           !.verify = Lookup(alarm'),
                                           !.alarmAtStart = alarm']
                     ELSE IdleTask]
  /\ ctl' = [c \in Controllers |-> Closed(c)]
  /\ inbox' = [c \in Controllers |-> <<>>]
  /\ form' = InitialForm
  /\ UNCHANGED <<calc, history, fetcher, now, installed, cache>>

\* background.js:93-108  the callback of storage.get.
StartupStorageCallback ==
  /\ bg["startup"].pc = "get"
  /\ bg' = [bg EXCEPT !["startup"].pc =
              IF NeedsFetchOnStartup(bg["startup"].result, now) THEN "fetch" ELSE "done"]
  /\ UNCHANGED <<form, calc, history, fetcher, now, installed, cache, alarm, ctl, inbox>>

\* background.js:111-121  the callback of the startup handler's alarms.get.
StartupVerifyCallback ==
  /\ bg["startup"].verify \in {"found", "missing"}
  /\ alarm' = VerifyCallbackAlarm(bg["startup"].verify, alarm)
  /\ bg' = [bg EXCEPT !["startup"].verify = "ran"]
  /\ UNCHANGED <<form, calc, history, fetcher, now, installed, cache, ctl, inbox>>

\* An error thrown at the await `where` of fetchAndStoreRate: caught and
\* logged when the try block covers it, else it rejects the handler.
Thrown(k, where) ==
  IF where \in TryCovers
    THEN /\ bg' = [bg EXCEPT ![k].pc = PcAfterFailure, ![k].data = NoEntry,
                             ![k].rejected = (where = "set"),
                             ![k].attempts = IF where = "fetch" THEN @ + 1 ELSE @]
         /\ alarm' = AfterFetchAndStore(k, alarm)
    ELSE /\ bg' = [bg EXCEPT ![k].pc = "done", ![k].data = NoEntry, ![k].escaped = TRUE,
                             ![k].rejected = (where = "set"),
                             ![k].attempts = IF where = "fetch" THEN @ + 1 ELSE @]
         /\ alarm' = alarm

\* background.js:21 with api.js:23-56: fetchBCVRate throws.
FetchThrows(k) ==
  /\ bg[k].pc = "fetch"
  /\ bg[k].attempts < 2
  /\ \E r \in Responses :
       /\ fetchBCVRate(r, now).thrown
       /\ Thrown(k, "fetch")
  /\ UNCHANGED <<form, calc, history, fetcher, now, installed, cache, ctl, inbox>>

\* background.js:21-27 and 36-38: fetchBCVRate returns.
FetchReturns(k) ==
  /\ bg[k].pc = "fetch"
  /\ bg[k].attempts < 2
  /\ \E r \in Responses :
       /\ ~fetchBCVRate(r, now).thrown
       /\ LET rateData == fetchBCVRate(r, now).value IN
          IF IsValidRateData(rateData)
            THEN /\ bg' = [bg EXCEPT ![k].pc = "set",
                                     ![k].data = DataToStore(rateData, now),
                                     ![k].attempts = @ + 1, ![k].fetchOk = TRUE,
                                     ![k].valid = TRUE]
                 /\ alarm' = alarm
            ELSE /\ bg' = [bg EXCEPT ![k].pc = "done",
                                     ![k].attempts = @ + 1, ![k].fetchOk = TRUE]
                 /\ alarm' = AfterFetchAndStore(k, alarm)
  /\ UNCHANGED <<form, calc, history, fetcher, now, installed, cache, ctl, inbox>>

\* background.js:27-35: storage.set resolves; alarms.get is issued and
\* fetchAndStoreRate returns to the handler.
StorageSetResolves(k) ==
  /\ bg[k].pc = "set"
  /\ InboxRoom
  /\ cache' = StoredValue(cache, bg[k].data)
  /\ inbox' = Notified(StoredValue(cache, bg[k].data))
  /\ bg' = [bg EXCEPT ![k].pc = "done", ![k].data = NoEntry, ![k].wrote = TRUE,
                      ![k].rearm = Lookup(alarm)]
  /\ alarm' = AfterFetchAndStore(k, alarm)
  /\ UNCHANGED <<form, calc, history, fetcher, now, installed, ctl>>

\* background.js:27 and 39-43: storage.set rejects.
StorageSetRejects(k) ==
  /\ bg[k].pc = "set"
  /\ Thrown(k, "set")
  /\ UNCHANGED <<form, calc, history, fetcher, now, installed, cache, ctl, inbox>>

\* background.js:30-35: the callback of fetchAndStoreRate's alarms.get.
RearmCallback(k) ==
  /\ bg[k].rearm \in {"found", "missing"}
  /\ alarm' = RearmCallbackAlarm(bg[k].rearm, alarm)
  /\ bg' = [bg EXCEPT ![k].rearm = "ran"]
  /\ UNCHANGED <<form, calc, history, fetcher, now, installed, cache, ctl, inbox>>

(***************************************************************************)
(* Controller steps.                                                       *)
(***************************************************************************)
\* DOMContentLoaded: initializeUI / loadInitialData up to the storage.get
\* callback; the storage.onChanged listener is registered.
OpenController(c) ==
  /\ installed
  /\ ~ctl[c].open
  /\ ctl' = [ctl EXCEPT ![c] =
               [Closed(c) EXCEPT !.open = TRUE, !.pc = "get", !.result = cache]]
  /\ UNCHANGED <<form, calc, history, fetcher, now, installed, cache, alarm, bg, inbox>>

\* The popup or the side panel is closed; a write already issued is
\* applied or refused before that.
CloseController(c) ==
  /\ ctl[c].open
  /\ ctl[c].pc # "set"
  /\ ctl' = [ctl EXCEPT ![c] = Closed(c)]
  /\ inbox' = [inbox EXCEPT ![c] = <<>>]
  /\ form' = IF c = "popup" THEN InitialForm ELSE form
  /\ UNCHANGED <<calc, history, fetcher, now, installed, cache, alarm, bg>>

\* ui.js loadDataFromStorageOrFetch / sidepanel.js loadInitialData: the
\* callback of storage.get.
GetCallback(c) ==
  /\ ctl[c].pc = "get"
  /\ ctl' = [ctl EXCEPT ![c] =
               IF IsStoredData(ctl[c].result)
                 THEN [@ EXCEPT !.pc = "idle", !.result = NoEntry,
                                !.rate = UpdateRate(c, ctl[c].result),
                                !.isCachedData = TRUE, !.view = "data"]
                 ELSE [@ EXCEPT !.pc = "fetch", !.result = NoEntry, !.view = "loading"]]
  /\ form' = IF c = "popup" /\ IsStoredData(ctl[c].result)
               THEN renderUI(form, history.stored) ELSE form
  /\ UNCHANGED <<calc, history, fetcher, now, installed, cache, alarm, bg, inbox>>

\* A refresh button that calls loadData() without forcing a live fetch: the
\* stored entry is read first.
Refresh_StorageFirst(c) ==
  /\ HasRefresh(c)
  /\ ctl[c].pc = "idle"
  /\ ctl' = [ctl EXCEPT ![c].pc = "get", ![c].view = "loading", ![c].result = cache]
  /\ UNCHANGED <<form, calc, history, fetcher, now, installed, cache, alarm, bg, inbox>>

\* ui.js setupEventListeners: the refresh button calls loadData(true).
Refresh(c) ==
  /\ HasRefresh(c)
  /\ ctl[c].pc = "idle"
  /\ ctl' = [ctl EXCEPT ![c].pc = "fetch", ![c].view = "loading"]
  /\ UNCHANGED <<form, calc, history, fetcher, now, installed, cache, alarm, bg, inbox>>

\* The catch block of a live fetch: the error state is shown; the popup
\* then issues storage.get for the stored entry.
Failed(c) ==
  ctl' = [ctl EXCEPT ![c] =
            IF HasFallback(c)
              THEN [@ EXCEPT !.pc = "fallback", !.data = NoEntry, !.view = "error",
                             !.result = cache]
              ELSE [@ EXCEPT !.pc = "idle", !.data = NoEntry, !.view = "error"]]

\* fetchBCVRate returns to loadData / loadInitialData: the entry is
\* stamped and storage.set is issued.
CtlFetchReturns(c) ==
  /\ ctl[c].pc = "fetch"
  /\ \E r \in Responses :
       /\ ~fetchBCVRate(r, now).thrown
       /\ ctl' = [ctl EXCEPT ![c].pc = "set",
                             ![c].data = DataToStore(fetchBCVRate(r, now).value, now)]
  /\ UNCHANGED <<form, calc, history, fetcher, now, installed, cache, alarm, bg, inbox>>

\* A catch block that also removes the stored entry.
CtlFetchThrows_RemovesEntry(c) ==
  /\ ctl[c].pc = "fetch"
  /\ \E r \in Responses : fetchBCVRate(r, now).thrown
  /\ Failed(c)
  /\ cache' = NoEntry
  /\ UNCHANGED <<form, calc, history, fetcher, now, installed, alarm, bg, inbox>>

\* fetchBCVRate throws in loadData / loadInitialData.
CtlFetchThrows(c) ==
  /\ ctl[c].pc = "fetch"
  /\ \E r \in Responses : fetchBCVRate(r, now).thrown
  /\ Failed(c)
  /\ UNCHANGED <<form, calc, history, fetcher, now, installed, cache, alarm, bg, inbox>>

\* The storage.set of a controller is applied by the browser.
CtlSetApplied(c) ==
  /\ ctl[c].pc = "set"
  /\ InboxRoom
  /\ cache' = StoredValue(cache, ctl[c].data)
  /\ inbox' = Notified(StoredValue(cache, ctl[c].data))
  /\ ctl' = [ctl EXCEPT ![c].pc = "written",
                        ![c].own = @ \cup {Len(inbox[c]) + 1}]
  /\ UNCHANGED <<form, calc, history, fetcher, now, installed, alarm, bg>>

\* `await chrome.storage.local.set` resolves: the data is shown as live.
CtlSetResolves(c) ==
  /\ ctl[c].pc = "written"
  /\ ctl' = [ctl EXCEPT ![c] =
               [@ EXCEPT !.pc = "idle", !.data = NoEntry,
                         !.rate = UpdateRate(c, ctl[c].data),
                         !.isCachedData = FALSE, !.view = "data"]]
  /\ form' = IF c = "popup" THEN renderUI(form, history.stored) ELSE form
  /\ UNCHANGED <<calc, history, fetcher, now, installed, cache, alarm, bg, inbox>>

CtlSetRejects(c) ==
  /\ ctl[c].pc = "set"
  /\ Failed(c)
  /\ UNCHANGED <<form, calc, history, fetcher, now, installed, cache, alarm, bg, inbox>>

\* ui.js loadData catch block: the callback of the fallback storage.get.
FallbackCallback(c) ==
  /\ ctl[c].pc = "fallback"
  /\ ctl' = [ctl EXCEPT ![c] =
               IF IsStoredData(ctl[c].result)
                 THEN [@ EXCEPT !.pc = "idle", !.result = NoEntry,
                                !.rate = UpdateRate(c, ctl[c].result),
                                !.isCachedData = TRUE, !.view = "data"]
                 ELSE [@ EXCEPT !.pc = "idle", !.result = NoEntry]]
  /\ form' = IF c = "popup" /\ IsStoredData(ctl[c].result)
               THEN renderUI(form, history.stored) ELSE form
  /\ UNCHANGED <<calc, history, fetcher, now, installed, cache, alarm, bg, inbox>>

\* A change event as the listener receives it.  The events of the writes
\* of this program are changes of RATE_DATA_KEY in the area 'local' and
\* stand in the inboxes as their new value; any other event stands there
\* as a record of its area, its key and its new value (NoEntry when the
\* entry was removed).
RATE_DATA_KEY == "bcvRateData"
Change(area, key, newValue) == [area |-> area, key |-> key, newValue |-> newValue]
AreaOf(ev) == IF "area" \in DOMAIN ev THEN ev.area ELSE "local"
KeyOf(ev) == IF "key" \in DOMAIN ev THEN ev.key ELSE RATE_DATA_KEY
NewValueOf(ev) == IF "newValue" \in DOMAIN ev THEN ev.newValue ELSE ev

\* A listener that does not look at the storage area.
ListenerReacts_AnyArea(ev) == KeyOf(ev) = RATE_DATA_KEY /\ NewValueOf(ev) # NoEntry

\* namespace === 'local' && changes[RATE_DATA_KEY], and newValue is truthy
ListenerReacts(ev) ==
  AreaOf(ev) = "local" /\ KeyOf(ev) = RATE_DATA_KEY /\ NewValueOf(ev) # NoEntry

\* The storage.onChanged listener of a controller runs on the oldest
\* undelivered change event.
DeliverChange(c) ==
  /\ ctl[c].open
  /\ inbox[c] # <<>>
  /\ ctl' = IF ListenerReacts(Head(inbox[c]))
              THEN [ctl EXCEPT ![c].rate = UpdateRate(c, NewValueOf(Head(inbox[c]))),
                               ![c].isCachedData = ChangeIsCached,
                               ![c].view = "data",
                               ![c].own = {i - 1 : i \in @ \ {1}}]
              ELSE [ctl EXCEPT ![c].own = {i - 1 : i \in @ \ {1}}]
  /\ inbox' = [inbox EXCEPT ![c] = Tail(inbox[c])]
  /\ form' = IF c = "popup" /\ ListenerReacts(Head(inbox[c]))
               THEN renderRateData(form) ELSE form
  /\ UNCHANGED <<calc, history, fetcher, now, installed, cache, alarm, bg>>

\* The background synchronizer on its own: no popup or side panel is open.
Next ==
  \/ Tick
  \/ OnInstalled
  \/ OnAlarm
  \/ OnStartup
  \/ StartupStorageCallback
  \/ StartupVerifyCallback
  \/ \E k \in Kinds : FetchThrows(k)
  \/ \E k \in Kinds : FetchReturns(k)
  \/ \E k \in Kinds : StorageSetResolves(k)
  \/ \E k \in Kinds : StorageSetRejects(k)
  \/ \E k \in Kinds : RearmCallback(k)

Spec == Init /\ [][Next]_vars

\* The synchronizer of a browser that keeps running, with no popup or side
\* panel open: every await completes, the host fires the alarm while it
\* exists, fetches eventually return a non-zero rate and writes are
\* eventually accepted.
LiveNext ==
  \/ Tick
  \/ OnInstalled
  \/ OnAlarm
  \/ \E k \in Kinds : FetchThrows(k)
  \/ \E k \in Kinds : FetchReturns(k)
  \/ \E k \in Kinds : StorageSetResolves(k)
  \/ \E k \in Kinds : StorageSetRejects(k)
  \/ \E k \in Kinds : RearmCallback(k)

Fairness ==
  /\ \A k \in Kinds : WF_vars(FetchThrows(k) \/ FetchReturns(k))
  /\ \A k \in Kinds : WF_vars(StorageSetResolves(k) \/ StorageSetRejects(k))
  /\ \A k \in Kinds : WF_vars(RearmCallback(k))
  /\ WF_vars(OnAlarm)
  /\ SF_vars(FetchReturns("alarm") /\ bg'["alarm"].pc = "set")
  /\ SF_vars(StorageSetResolves("alarm"))

LiveSpec == Init /\ [][LiveNext]_vars /\ Fairness

\* The controllers together with the timer-driven refresh, from the state
\* that a fresh install whose fetch failed leaves behind.
InitUI ==
  /\ now = 0
  /\ installed = TRUE
  /\ cache = NoEntry
  /\ alarm = InstallAlarmInfo
  /\ bg = [k \in Kinds |->
             IF k = "install" THEN [IdleTask EXCEPT !.pc = "done", !.attempts = 1]
                              ELSE IdleTask]
  /\ ctl = [c \in Controllers |-> Closed(c)]
  /\ inbox = [c \in Controllers |-> <<>>]
  /\ fetcher = IdleFetcher
  /\ history = EmptyHistory
  /\ calc = NoCall
  /\ form = InitialForm

TickUI ==
  /\ \E t \in Instants : t > now /\ t <= MaxTimeUI /\ now' = t
  /\ UNCHANGED <<form, calc, history, fetcher, installed, cache, alarm, bg, ctl, inbox>>

NextUI ==
  \/ TickUI
  \/ OnAlarm
  \/ FetchThrows("alarm")
  \/ FetchReturns("alarm")
  \/ StorageSetResolves("alarm")
  \/ StorageSetRejects("alarm")
  \/ RearmCallback("alarm")
  \/ \E c \in Controllers : OpenController(c)
  \/ \E c \in Controllers : CloseController(c)
  \/ \E c \in Controllers : GetCallback(c)
  \/ \E c \in Controllers : Refresh(c)
  \/ \E c \in Controllers : CtlFetchReturns(c)
  \/ \E c \in Controllers : CtlFetchThrows(c)
  \/ \E c \in Controllers : CtlSetApplied(c)
  \/ \E c \in Controllers : CtlSetResolves(c)
  \/ \E c \in Controllers : CtlSetRejects(c)
  \/ \E c \in Controllers : FallbackCallback(c)
  \/ \E c \in Controllers : DeliverChange(c)

SpecUI == InitUI /\ [][NextUI]_vars

\* The life of the cache entry: install, restart and timer events together
\* with the popup, its refresh button included, at one instant of the clock.
NextLife ==
  \/ OnInstalled
  \/ OnAlarm
  \/ OnStartup
  \/ StartupStorageCallback
  \/ StartupVerifyCallback
  \/ \E k \in Kinds : FetchThrows(k)
  \/ \E k \in Kinds : FetchReturns(k)
  \/ \E k \in Kinds : StorageSetResolves(k)
  \/ \E k \in Kinds : StorageSetRejects(k)
  \/ \E k \in Kinds : RearmCallback(k)
  \/ OpenController("popup")
  \/ CloseController("popup")
  \/ GetCallback("popup")
  \/ Refresh("popup")
  \/ CtlFetchReturns("popup")
  \/ CtlFetchThrows("popup")
  \/ CtlSetApplied("popup")
  \/ CtlSetResolves("popup")
  \/ CtlSetRejects("popup")
  \/ FallbackCallback("popup")
  \/ DeliverChange("popup")

SpecLife == Init /\ [][NextLife]_vars

(***************************************************************************)
(* fetchBCVRate on its own, against every answer of the remote source.     *)
(***************************************************************************)
FieldValues ==
  {Undefined, JsNull, Overflow, Num(0), Num(3610), Num(3650)}
    \cup {Str(s) : s \in Strings}

DateValues == {Undefined, JsNull, Str(""), DateStr(0)}

FetcherResponses ==
  {[kind |-> "network_error"], [kind |-> "http_error"], [kind |-> "bad_json"]}
    \cup {Body(p, q, d) : p \in FieldValues, q \in FieldValues, d \in DateValues}

\* api.js:25  fetchBCVRate is called and issues fetch(API_URL).
FetcherCall ==
  /\ fetcher.pc \in {"idle", "returned"}
  /\ fetcher' = [IdleFetcher EXCEPT !.pc = "awaiting", !.calls = 1]
  /\ UNCHANGED <<form, calc, history, now, installed, cache, alarm, bg, ctl, inbox>>

\* api.js:25-55  the answer arrives and fetchBCVRate returns or throws.
FetcherResponds ==
  /\ fetcher.pc = "awaiting"
  /\ \E r \in FetcherResponses :
       fetcher' = [fetcher EXCEPT !.pc = "returned", !.response = r,
                                  !.result = fetchBCVRate(r, now), !.at = now]
  /\ UNCHANGED <<form, calc, history, now, installed, cache, alarm, bg, ctl, inbox>>

NextFetch ==
  \/ Tick
  \/ FetcherCall
  \/ FetcherResponds

SpecFetch == Init /\ [][NextFetch]_vars

(***************************************************************************)
(* The conversion history on its own.                                      *)
(***************************************************************************)
MaxAppends == 11

\* What callers hand to addConversionToHistory: a conversion, one that
\* brings a timestamp of its own and an amount that is not finite, one whose
\* fromAmount is a string, and nothing at all.
Conversion(from, to) ==
  [fromAmount |-> from, fromCurrency |-> Str("USD"), toAmount |-> to,
   toCurrency |-> Str("Bs"), rate |-> Num(3650)]

HistoryInputs ==
  { Conversion(Num(100), Num(3650)),
    HistoryItem(Conversion(Num(100), Infinity), 61),
    Conversion(Str("100"), Num(3650)),
    Undefined }

HistoryAppend ==
  /\ Len(history.appended) < MaxAppends
  /\ \E conversion \in HistoryInputs :
       history' =
         [stored |-> addConversionToHistory(history.stored, conversion, now),
          appended |-> IF IsConversion(conversion)
                         THEN <<[conversion |-> conversion, at |-> now]>> \o history.appended
                         ELSE history.appended,
          cleared |-> history.cleared /\ ~IsConversion(conversion),
          listed |-> NotListed,
          returned |-> AppendReturn(history.stored, conversion, now)]
  /\ UNCHANGED <<form, calc, now, installed, cache, alarm, bg, ctl, inbox, fetcher>>

HistoryClear ==
  /\ history' = [stored |-> clearConversionHistory(history.stored),
                 appended |-> <<>>, cleared |-> TRUE, listed |-> NotListed,
                 returned |-> NoReturn]
  /\ UNCHANGED <<form, calc, now, installed, cache, alarm, bg, ctl, inbox, fetcher>>

HistoryList ==
  /\ ~history.listed.done
  /\ history' = [history EXCEPT !.listed = Listed(getConversionHistory(history.stored))]
  /\ UNCHANGED <<form, calc, now, installed, cache, alarm, bg, ctl, inbox, fetcher>>

NextHistory ==
  \/ TickUI
  \/ HistoryAppend
  \/ HistoryClear
  \/ HistoryList

SpecHistory == Init /\ [][NextHistory]_vars

\* The history store from what localStorage may hold under HISTORY_KEY when
\* the page is loaded for the first time: nothing, or a string that is not
\* JSON.
InitStored ==
  /\ now = 0
  /\ installed = FALSE
  /\ cache = NoEntry
  /\ alarm = NoAlarm
  /\ bg = [k \in Kinds |-> IdleTask]
  /\ ctl = [c \in Controllers |-> Closed(c)]
  /\ inbox = [c \in Controllers |-> <<>>]
  /\ fetcher = IdleFetcher
  /\ history \in {[EmptyHistory EXCEPT !.stored = item] : item \in {NoItem, Unparsable}}
  /\ calc = NoCall
  /\ form = InitialForm

NextStored ==
  \/ HistoryAppend
  \/ HistoryClear
  \/ HistoryList

SpecStored == InitStored /\ [][NextStored]_vars

(***************************************************************************)
(* The controllers with a storage that something else changes as well: an  *)
(* entry of the area 'sync', another key of the area 'local', or the       *)
(* removal of the rate entry.                                              *)
(***************************************************************************)
SomeEntry == DataToStore(RateRecord(3650, 3610, 0), 0)

OtherChanges ==
  { Change("sync", RATE_DATA_KEY, SomeEntry),
    Change("local", "settings", SomeEntry),
    Change("local", RATE_DATA_KEY, NoEntry) }

\* Storage is changed from outside the program; every open controller is
\* sent the event.  A removal of the rate entry empties the cache.
OtherChange ==
  /\ InboxRoom
  /\ \E ev \in OtherChanges :
       /\ inbox' = Notified(ev)
       /\ cache' = IF ev.area = "local" /\ ev.key = RATE_DATA_KEY
                     THEN ev.newValue ELSE cache
  /\ UNCHANGED <<form, calc, history, fetcher, now, installed, alarm, bg, ctl>>

NextListener ==
  \/ OtherChange
  \/ \E c \in Controllers : OpenController(c)
  \/ \E c \in Controllers : CloseController(c)
  \/ \E c \in Controllers : GetCallback(c)
  \/ \E c \in Controllers : Refresh(c)
  \/ \E c \in Controllers : CtlFetchReturns(c)
  \/ \E c \in Controllers : CtlFetchThrows(c)
  \/ \E c \in Controllers : CtlSetApplied(c)
  \/ \E c \in Controllers : CtlSetResolves(c)
  \/ \E c \in Controllers : CtlSetRejects(c)
  \/ \E c \in Controllers : FallbackCallback(c)
  \/ \E c \in Controllers : DeliverChange(c)

SpecListener == InitUI /\ [][NextListener]_vars

(***************************************************************************)
(* The popup as its user drives it: the conversion section and the history *)
(* together with the rate section, the cache and the timer-driven refresh. *)
(***************************************************************************)
MaxConversions == 1

\* What can stand in an amount input (validateInput lets digits and one
\* point through).
AmountTexts == {"", ".", "0", "36.50"}

\* The number parseFloat returned.
Parsed(p) == IF p.nan THEN NaN ELSE IF p.inf THEN Infinity ELSE Num(p.val)

\* The input of the conversion mode: the other one is hidden.
ActiveInput(f) == IF f.mode = "usd-to-bs" THEN f.fromInput ELSE f.toInput

\* The user types into the visible amount input.
TypeAmount ==
  /\ ctl["popup"].open
  /\ \E text \in AmountTexts :
       /\ text # ActiveInput(form)
       /\ form' = IF form.mode = "usd-to-bs" THEN [form EXCEPT !.fromInput = text]
                                              ELSE [form EXCEPT !.toInput = text]
  /\ UNCHANGED <<calc, history, fetcher, now, installed, cache, alarm, bg, ctl, inbox>>

\* ui.js handleConvert: the object handed to addConversionToHistory.
Converted(f, amount, result, rate) ==
  [fromAmount |-> amount,
   fromCurrency |-> IF f.mode = "usd-to-bs" THEN Str("USD") ELSE Str("Bs"),
   toAmount |-> result,
   toCurrency |-> IF f.mode = "usd-to-bs" THEN Str("Bs") ELSE Str("USD"),
   rate |-> rate]

\* A test of the amount that lets zero through.
IsValidAmount_NaNOnly(amount) == ~isNaN(amount)

\* ui.js handleConvert: !amount || isNaN(amount) is the invalid amount.
IsValidAmount(amount) == ~(Falsy(amount) \/ isNaN(amount))

\* ui.js handleConvert
HandleConvert ==
  /\ ctl["popup"].open
  /\ Len(history.appended) < MaxConversions
  /\ LET amount == Parsed(parseFloat(Str(ActiveInput(form))))
         rate == Num(ctl["popup"].rate.currentRate)
         result == IF form.mode = "usd-to-bs" THEN convertUSDtoBs(amount, rate)
                                              ELSE convertBstoUSD(amount, rate)
         conversion == Converted(form, amount, result, rate)
         stored == addConversionToHistory(history.stored, conversion, now)
     IN  IF ~IsValidAmount(amount)
           THEN UNCHANGED <<form, history>>
           ELSE /\ form' = renderHistory([form EXCEPT !.amount = amount,
                                                      !.result = result], stored)
                /\ history' =
                     [stored |-> stored,
                      appended |-> IF IsConversion(conversion)
                                     THEN <<[conversion |-> conversion, at |-> now]>>
                                            \o history.appended
                                     ELSE history.appended,
                      cleared |-> history.cleared /\ ~IsConversion(conversion),
                      listed |-> NotListed,
                      returned |-> AppendReturn(history.stored, conversion, now)]
  /\ UNCHANGED <<calc, fetcher, now, installed, cache, alarm, bg, ctl, inbox>>

\* ui.js handleSwap
HandleSwap ==
  /\ ctl["popup"].open
  /\ form' = updateConversionUI(
               [form EXCEPT !.mode = IF @ = "usd-to-bs" THEN "bs-to-usd" ELSE "usd-to-bs"])
  /\ UNCHANGED <<calc, history, fetcher, now, installed, cache, alarm, bg, ctl, inbox>>

\* A clear button that also removes the stored rate.
HandleClearHistory_ClearsCache ==
  /\ ctl["popup"].open
  /\ history' = [stored |-> clearConversionHistory(history.stored),
                 appended |-> <<>>, cleared |-> TRUE, listed |-> NotListed,
                 returned |-> NoReturn]
  /\ form' = renderHistory(form, clearConversionHistory(history.stored))
  /\ cache' = NoEntry
  /\ UNCHANGED <<calc, fetcher, now, installed, alarm, bg, ctl, inbox>>

\* ui.js handleClearHistory
HandleClearHistory ==
  /\ ctl["popup"].open
  /\ history' = [stored |-> clearConversionHistory(history.stored),
                 appended |-> <<>>, cleared |-> TRUE, listed |-> NotListed,
                 returned |-> NoReturn]
  /\ form' = renderHistory(form, clearConversionHistory(history.stored))
  /\ UNCHANGED <<calc, fetcher, now, installed, cache, alarm, bg, ctl, inbox>>

NextPopup ==
  \/ TickUI
  \/ OnAlarm
  \/ FetchThrows("alarm")
  \/ FetchReturns("alarm")
  \/ StorageSetResolves("alarm")
  \/ StorageSetRejects("alarm")
  \/ RearmCallback("alarm")
  \/ OpenController("popup")
  \/ CloseController("popup")
  \/ GetCallback("popup")
  \/ Refresh("popup")
  \/ CtlFetchReturns("popup")
  \/ CtlFetchThrows("popup")
  \/ CtlSetApplied("popup")
  \/ CtlSetResolves("popup")
  \/ CtlSetRejects("popup")
  \/ FallbackCallback("popup")
  \/ DeliverChange("popup")
  \/ TypeAmount
  \/ HandleConvert
  \/ HandleSwap
  \/ HandleClearHistory

SpecPopup == InitUI /\ [][NextPopup]_vars

(***************************************************************************)
(* The functions of calculator.js on their own.                            *)
(***************************************************************************)
CalcValues == Floats \cup {Infinity, NegInfinity, NaN}

\* What getRateChangeType is also given: strings and undefined.
RateValues == CalcValues \cup {Str("6"), Str("abc"), Undefined}

Convert ==
  /\ calc.op = "none"
  /\ \E amount \in CalcValues, rate \in CalcValues,
        direction \in {"usd-to-bs", "bs-to-usd"} :
       calc' = [NoCall EXCEPT !.op = "convert", !.direction = direction,
                              !.a = amount, !.b = rate,
                              !.result = IF direction = "usd-to-bs"
                                           THEN convertUSDtoBs(amount, rate)
                                           ELSE convertBstoUSD(amount, rate)]
  /\ UNCHANGED <<form, history, now, installed, cache, alarm, bg, ctl, inbox, fetcher>>

\* The result of a conversion to bolivars converted back with the same rate.
ConvertBack ==
  /\ calc.op = "convert"
  /\ calc.direction = "usd-to-bs"
  /\ calc.back = Undefined
  /\ calc' = [calc EXCEPT !.back = convertBstoUSD(calc.result, calc.b)]
  /\ UNCHANGED <<form, history, now, installed, cache, alarm, bg, ctl, inbox, fetcher>>

RateChange ==
  /\ calc.op = "none"
  /\ \E x \in RateValues, y \in RateValues :
       calc' = [NoCall EXCEPT !.op = "changeType", !.a = x, !.b = y,
                              !.changeType = getRateChangeType(x, y)]
  /\ UNCHANGED <<form, history, now, installed, cache, alarm, bg, ctl, inbox, fetcher>>

\* The caller is done with the value returned.
Return ==
  /\ calc.op # "none"
  /\ calc' = NoCall
  /\ UNCHANGED <<form, history, now, installed, cache, alarm, bg, ctl, inbox, fetcher>>

NextCalc ==
  \/ Convert
  \/ ConvertBack
  \/ RateChange
  \/ Return

SpecCalc == Init /\ [][NextCalc]_vars

(***************************************************************************)
(* Properties.                                                             *)
(***************************************************************************)
Existing(k) == bg[k].pc # "idle"

\* C1: when the callback of the startup handler's storage.get runs, a fetch
\* is started if and only if the result has no entry or the entry's
\* lastFetchedByBackground is more than 60 minutes before now; the cache is
\* not changed by that step.
C1_StartupReconciliation ==
  [][ (bg["startup"].pc = "get" /\ bg'["startup"].pc \in {"fetch", "done"})
        => /\ (bg'["startup"].pc = "fetch") <=>
                \/ bg["startup"].result = NoEntry
                \/ now - bg["startup"].result.lastFetchedByBackground > 60
           /\ cache' = cache ]_vars

\* C1 witness: startup found an entry fetched 61 minutes ago and started a fetch.
C1_Witness ==
  /\ bg["startup"].pc = "fetch"
  /\ bg["startup"].result # NoEntry
  /\ now - bg["startup"].result.lastFetchedByBackground = 61

\* C2: once an install event has been fully handled, exactly one fetch was
\* attempted and the alarm has period 60 and an initial delay of 1 minute.
C2_InstallBootstrap ==
  FullyHandled("install") =>
    /\ bg["install"].attempts = 1
    /\ alarm = [delayInMinutes |-> 1, periodInMinutes |-> 60]

\* What fetchAndStoreRate hands to storage.set for response r at time n.
ExpectedEntry(r, n) ==
  LET v == fetchBCVRate(r, n).value IN
  [currentRate |-> v.currentRate, previousRate |-> v.previousRate, date |-> v.date,
   change |-> v.change, changePercentage |-> v.changePercentage,
   lastFetchedByBackground |-> n]

\* C3 as stated: every fetch-and-store whose fetch succeeded has replaced
\* the cache entry by the time it is finished.
C3_EverySuccessfulFetchStored ==
  \A k \in Kinds : (bg[k].pc = "done" /\ bg[k].fetchOk) => bg[k].wrote

\* C3 amended: a fetch-and-store whose fetch returns a record with a
\* non-zero currentRate issues a write of exactly that record plus a
\* lastFetchedByBackground equal to the time the fetch returned; when that
\* write is accepted the cache entry becomes exactly the entry issued; a
\* finished fetch-and-store has written unless the fetch failed, the rate was
\* zero or the write was rejected; price 36.50 / price_old 36.10 is stored
\* with change 0.40.
C3_StoredEntry ==
  /\ [](\A k \in Kinds :
          (bg[k].pc = "done" /\ bg[k].fetchOk /\ bg[k].valid /\ ~bg[k].rejected)
            => bg[k].wrote)
  /\ [](cache # NoEntry =>
          /\ cache.currentRate # 0
          /\ (cache.currentRate = 3650 /\ cache.previousRate = 3610) => cache.change = 40)
  /\ [][ \A k \in Kinds :
           /\ (bg[k].pc = "fetch" /\ bg'[k].pc = "set")
                => \E r \in Responses :
                     /\ ~fetchBCVRate(r, now).thrown
                     /\ bg'[k].data = ExpectedEntry(r, now)
           /\ (~bg[k].wrote /\ bg'[k].wrote) => cache' = bg[k].data ]_vars

\* C3 witness: the cache holds the record of 36.50 / 36.10, written by the
\* timer-fire handler at minute 10.
C3_Witness ==
  /\ bg["alarm"].wrote
  /\ cache = [currentRate |-> 3650, previousRate |-> 3610, date |-> 0, change |-> 40,
              changePercentage |-> 1108, lastFetchedByBackground |-> 10]

\* C4: a timer fire whose fetch fails makes exactly one call of fetchBCVRate,
\* leaves the cache entry unchanged and ends in "done"; a finished handler
\* fetches again only when the next event starts it afresh.
C4_NoRetry ==
  /\ [](\A k \in Kinds : bg[k].attempts <= 1)
  /\ [][ /\ (bg'["alarm"].attempts = bg["alarm"].attempts + 1 /\ ~bg'["alarm"].fetchOk)
              => /\ bg'["alarm"].attempts = 1
                 /\ bg'["alarm"].pc = "done"
                 /\ Quiet("alarm")'
                 /\ cache' = cache
         /\ (bg["alarm"].pc = "done" /\ bg'["alarm"].pc = "fetch")
              => bg'["alarm"].attempts = 0 ]_vars

\* C4 witness: the timer-fire handler is finished after one failed fetch.
C4_Witness ==
  /\ bg["alarm"].pc = "done"
  /\ bg["alarm"].attempts = 1
  /\ ~bg["alarm"].fetchOk
  /\ cache # NoEntry

\* C5: the success path looks the alarm up when the write is accepted; its
\* callback creates the alarm (period 60) when the lookup found none and
\* leaves the alarm untouched when the lookup found one; once the callback
\* has run an alarm exists.
C5_SelfHealing ==
  /\ [](\A k \in Kinds : bg[k].rearm = "ran" => alarm # NoAlarm)
  /\ [][ \A k \in Kinds :
           /\ (~bg[k].wrote /\ bg'[k].wrote)
                => bg'[k].rearm = IF alarm = NoAlarm THEN "missing" ELSE "found"
           /\ (bg[k].rearm = "missing" /\ bg'[k].rearm = "ran")
                => alarm' = [periodInMinutes |-> 60]
           /\ (bg[k].rearm = "found" /\ bg'[k].rearm = "ran")
                => alarm' = alarm ]_vars

\* C5 witness: after a restart that lost the alarm, the callback of the
\* success path has re-created it while the startup check is still pending.
C5_Witness ==
  /\ bg["startup"].rearm = "ran"
  /\ bg["startup"].verify = "missing"
  /\ bg["startup"].alarmAtStart = NoAlarm
  /\ alarm = [periodInMinutes |-> 60]

\* C6: for every handler, if the alarm was missing when the event was
\* dispatched and the fetch failed, the alarm exists once the event is
\* fully handled.
C6_FailureDoesNotBlockRearm ==
  \A k \in Kinds :
    (FullyHandled(k) /\ bg[k].alarmAtStart = NoAlarm
       /\ bg[k].attempts = 1 /\ ~bg[k].fetchOk)
      => alarm # NoAlarm

\* C6 witness: a fresh install whose fetch failed is fully handled.
C6_Witness ==
  /\ FullyHandled("install")
  /\ bg["install"].alarmAtStart = NoAlarm
  /\ bg["install"].attempts = 1
  /\ ~bg["install"].fetchOk
  /\ alarm = [delayInMinutes |-> 1, periodInMinutes |-> 60]

\* A step in which fetchAndStoreRate of handler k ends in its catch block.
FailingStep(k) ==
  \/ bg'[k].attempts = bg[k].attempts + 1 /\ ~bg'[k].fetchOk
  \/ ~bg[k].rejected /\ bg'[k].rejected

\* C7: no error of fetchBCVRate or of storage.set leaves a handler; the
\* failure path never removes an existing alarm, and in the startup and
\* timer-fire handlers (which do nothing after fetchAndStoreRate) it leaves
\* the alarm exactly as it was.
C7_ErrorsAbsorbed ==
  /\ [](\A k \in Kinds : ~bg[k].escaped)
  /\ [][ \A k \in Kinds :
           FailingStep(k) =>
             /\ bg'[k].pc = "done"
             /\ alarm # NoAlarm => alarm' # NoAlarm
             /\ k # "install" => alarm' = alarm ]_vars

\* C7 witness: the timer-fire handler is finished after a rejected write
\* and the alarm is still there.
C7_Witness ==
  /\ bg["alarm"].pc = "done"
  /\ bg["alarm"].rejected
  /\ alarm # NoAlarm

\* C8: once a startup event has been fully handled (no install handler
\* having run in that session) an alarm exists; one that existed at startup
\* is unchanged, and one that did not exist has period 60 and an initial
\* delay of 1 minute.
C8_StartupTimerVerification ==
  (FullyHandled("startup") /\ ~Existing("install")) =>
    /\ alarm # NoAlarm
    /\ bg["startup"].alarmAtStart # NoAlarm => alarm = bg["startup"].alarmAtStart
    /\ bg["startup"].alarmAtStart = NoAlarm
         => alarm = [delayInMinutes |-> 1, periodInMinutes |-> 60]

\* C9 as stated: after every timer fire whose fetch succeeded the cache
\* entry has been overwritten.
C9_EveryFireOverwrites ==
  (bg["alarm"].pc = "done" /\ bg["alarm"].fetchOk) => bg["alarm"].wrote

\* The timer-fire handler overwrites the cache entry with the record it
\* has just fetched.
TimerOverwrite ==
  /\ bg["alarm"].pc = "set"
  /\ bg'["alarm"].wrote
  /\ cache' = bg["alarm"].data

\* C9 amended: with no popup or side panel open, once the extension is
\* installed, if the host fires the alarm while it exists, fetches
\* eventually return a non-zero rate and storage writes are eventually
\* accepted, the timer-fire handler overwrites the cache entry with a freshly
\* fetched record infinitely often.
C9_BackgroundRefreshLive ==
  ([]~installed) \/ []<><<TimerOverwrite>>_vars

\* C9 witness: the timer-fire handler has overwritten the entry at minute 61.
C9_Witness ==
  /\ bg["alarm"].wrote
  /\ cache # NoEntry
  /\ cache.lastFetchedByBackground = 61
  /\ now = 61

\* A step in which a write of the background or of controller w is applied.
BgWriteStep == \E k \in Kinds : ~bg[k].wrote /\ bg'[k].wrote
CtlWriteStep(w) == ctl[w].pc = "set" /\ ctl'[w].pc = "written"

\* C10: every cache write applied for one process sends every other open
\* controller a change event whose payload is the written entry, and when a
\* controller's change handler has run on an event the controller's rate
\* fields (currentRate, previousRate, date, change, changePercentage,
\* lastFetchedByBackground) equal that payload.
C10_CacheCoherence ==
  [][ /\ BgWriteStep =>
           \A c \in Controllers :
             ctl[c].open => inbox'[c] = Append(inbox[c], cache')
      /\ \A w \in Controllers :
           CtlWriteStep(w) =>
             \A c \in Controllers \ {w} :
               ctl[c].open => inbox'[c] = Append(inbox[c], cache')
      /\ \A c \in Controllers :
           (ctl[c].open /\ ctl'[c].open /\ inbox[c] # <<>> /\ inbox'[c] = Tail(inbox[c]))
             => ctl'[c].rate = Head(inbox[c]) ]_vars

\* C10 witness: the side panel, still waiting for its own live fetch, shows
\* the entry the popup has just written.
C10_Witness ==
  /\ ctl["popup"].pc = "written"
  /\ cache = ctl["popup"].data
  /\ ctl["sidepanel"].pc = "fetch"
  /\ inbox["sidepanel"] = <<>>
  /\ ctl["sidepanel"].rate = cache
  /\ ctl["sidepanel"].isCachedData

\* Nothing is pending: every handler of the service worker has finished with
\* its callbacks run, no controller is waiting for a read, a fetch or a
\* write, and every change event has been delivered.
Settled ==
  /\ \A k \in Kinds : Quiet(k)
  /\ \A c \in Controllers : ctl[c].pc \in {"closed", "idle"} /\ inbox[c] = <<>>

\* Controller c shows the record that is in the cache.
Displays(c) == ctl[c].view = "data" /\ ctl[c].rate = cache

\* C11: whenever nothing is pending (cache writes have stopped, every
\* storage read has called back and every change event is delivered), every
\* open controller displays the record that is in the cache.
C11_Convergence ==
  (Settled /\ cache # NoEntry) => \A c \in Controllers : ctl[c].open => Displays(c)

\* C12: the cache is empty or holds one complete entry, the one a single
\* write was given (a fetched record stamped at one instant); a write that is
\* applied leaves the cache equal to exactly the entry of that write, whatever
\* another process wrote before it.
C12_LastWriterWins ==
  /\ [](cache # NoEntry =>
          \E r \in Responses, n \in Instants :
            /\ ~fetchBCVRate(r, n).thrown
            /\ cache = ExpectedEntry(r, n))
  /\ [][ /\ \A k \in Kinds : (~bg[k].wrote /\ bg'[k].wrote) => cache' = bg[k].data
         /\ \A w \in Controllers : CtlWriteStep(w) => cache' = ctl[w].data ]_vars

\* C12 witness: the popup and the timer-fire handler fetched concurrently;
\* the popup's write was applied first, the handler's write last, and the
\* cache holds the handler's entry, not the popup's.
C12_Witness ==
  /\ ctl["popup"].pc = "written"
  /\ bg["alarm"].wrote
  /\ cache # ctl["popup"].data
  /\ cache.lastFetchedByBackground # ctl["popup"].data.lastFetchedByBackground
  /\ cache.currentRate # ctl["popup"].data.currentRate

\* C13: a controller that opens issues a read of the cache first.  When the
\* read calls back with an entry the controller shows that entry marked
\* cached, starts no fetch and the cache is not written; when it calls back
\* with no entry the controller starts its live fetch without showing an
\* error.  A live fetch is started only by that callback or by the refresh
\* button; when it returns, the record is stamped with the current time and
\* handed to storage.set, that write puts exactly this entry in the cache,
\* and when the write has resolved the controller shows the entry marked
\* live.
C13_ControllerInit ==
  [][ \A c \in Controllers :
        /\ (~ctl[c].open /\ ctl'[c].open)
             => ctl'[c].pc = "get" /\ ctl'[c].result = cache /\ cache' = cache
        /\ (ctl[c].pc = "get" /\ ctl'[c].pc # "get" /\ ctl'[c].open
              /\ ctl[c].result # NoEntry)
             => /\ ctl'[c].pc = "idle"
                /\ ctl'[c].view = "data"
                /\ ctl'[c].isCachedData
                /\ ctl'[c].rate = ctl[c].result
                /\ cache' = cache
        /\ (ctl[c].pc = "get" /\ ctl'[c].pc # "get" /\ ctl'[c].open
              /\ ctl[c].result = NoEntry)
             => /\ ctl'[c].pc = "fetch"
                /\ ctl'[c].view = "loading"
                /\ cache' = cache
        /\ (ctl[c].pc # "fetch" /\ ctl'[c].pc = "fetch")
             => \/ ctl[c].pc = "get"
                \/ c = "popup" /\ ctl[c].pc = "idle"
        /\ (ctl[c].pc = "fetch" /\ ctl'[c].pc = "set")
             => /\ \E r \in Responses :
                     /\ ~fetchBCVRate(r, now).thrown
                     /\ ctl'[c].data = ExpectedEntry(r, now)
                /\ cache' = cache
        /\ (ctl[c].pc = "set" /\ ctl'[c].pc = "written") => cache' = ctl[c].data
        /\ (ctl[c].pc = "written" /\ ctl'[c].pc = "idle")
             => /\ ctl'[c].rate = ctl[c].data
                /\ ~ctl'[c].isCachedData
                /\ ctl'[c].view = "data" ]_vars

\* C13 witness: the side panel, opened on an empty cache, shows as live the
\* entry its own fetch stored at minute 10.
C13_Witness ==
  /\ ctl["sidepanel"].pc = "idle"
  /\ ctl["sidepanel"].view = "data"
  /\ ~ctl["sidepanel"].isCachedData
  /\ ctl["sidepanel"].rate = cache
  /\ cache.lastFetchedByBackground = 10
  /\ ~bg["alarm"].wrote
  /\ ctl["popup"].pc = "idle"
  /\ ctl["popup"].isCachedData

\* The change listener of controller c runs on the oldest undelivered event.
Delivery(c) ==
  /\ ctl[c].open /\ ctl'[c].open
  /\ inbox[c] # <<>>
  /\ inbox'[c] = Tail(inbox[c])

\* C14: every change event delivered to a controller makes it show the
\* event's value, marked cached when the event comes from another process's
\* write; once a controller's own live fetch has written the cache and the
\* event of that write has been delivered to it, whichever of the write's
\* completion and the delivery comes last leaves the data marked live.
C14_OwnNotificationLive ==
  [][ \A c \in Controllers :
        /\ Delivery(c) => ctl'[c].view = "data" /\ ctl'[c].rate = Head(inbox[c])
        /\ (Delivery(c) /\ 1 \notin ctl[c].own) => ctl'[c].isCachedData
        /\ (Delivery(c) /\ 1 \in ctl[c].own /\ ctl[c].pc # "written")
             => ~ctl'[c].isCachedData
        /\ (ctl[c].pc = "written" /\ ctl'[c].pc = "idle" /\ ctl[c].own = {})
             => ~ctl'[c].isCachedData ]_vars

\* C15: a controller whose live fetch has failed does not remain in the
\* error state while the cache holds an entry: once its reads have called
\* back and its change events are delivered, a controller that shows the error
\* state faces an empty cache.
C15_FallbackToCache ==
  \A c \in Controllers :
    (ctl[c].open /\ ctl[c].pc = "idle" /\ inbox[c] = <<>> /\ ctl[c].view = "error")
      => cache = NoEntry

\* A step in which a write of fetched data is applied to the cache.
FetchedWrite ==
  \/ \E k \in Kinds :
       /\ bg[k].pc = "set" /\ bg[k].fetchOk /\ bg'[k].wrote
       /\ cache' = bg[k].data
  \/ \E c \in Controllers :
       /\ ctl[c].pc = "set" /\ ctl'[c].pc = "written"
       /\ cache' = ctl[c].data

\* C16: the cache entry is created and changed only by a step that applies
\* the write of a successful fetch (of a handler of the service worker or of
\* a controller), and a cache that holds an entry holds an entry after every
\* step: install, restart, timer fire, opening or closing the popup, refresh.
C16_CacheLifecycle ==
  /\ [](\A k \in Kinds : bg[k].pc = "set" => bg[k].fetchOk /\ bg[k].data # NoEntry)
  /\ [](\A c \in Controllers : ctl[c].pc = "set" => ctl[c].data # NoEntry)
  /\ [][ /\ cache # NoEntry => cache' # NoEntry
         /\ cache' # cache => FetchedWrite ]_vars

\* C16 witness: the entry written by the popup's live fetch is still in the
\* cache after a browser restart whose startup handler has finished and
\* after the popup was opened again and refreshed.
C16_Witness ==
  /\ cache # NoEntry
  /\ cache.currentRate = 0
  /\ FullyHandled("startup")
  /\ bg["startup"].attempts = 0
  /\ bg["install"].pc = "idle"
  /\ ctl["popup"].pc = "fallback"

\* The derived fields of a record agree with its rates.
Derived(rec) ==
  /\ rec.change = rec.currentRate - rec.previousRate
  /\ rec.changePercentage =
       IF rec.previousRate = 0 THEN 0
       ELSE (rec.change * 100000) \div rec.previousRate

\* C17: in every reachable state the cache entry, when there is one, and the
\* rate data held by each controller, once it has rate fields, satisfy
\* change = currentRate - previousRate and changePercentage =
\* change / previousRate * 100, which is 0 when previousRate is 0.
C17_DerivedFields ==
  /\ cache # NoEntry => Derived(cache)
  /\ \A c \in Controllers :
       "currentRate" \in DOMAIN ctl[c].rate => Derived(ctl[c].rate)

\* C17 witness: the side panel shows the cached record of 36.50 / 36.10 while
\* the popup shows the record of a zero previous rate that its own fetch
\* returned.
C17_Witness ==
  /\ cache # NoEntry
  /\ cache.currentRate = 3650
  /\ cache.change = 40
  /\ cache.changePercentage = 1108
  /\ ctl["sidepanel"].view = "data"
  /\ ctl["sidepanel"].rate = cache
  /\ ctl["popup"].view = "data"
  /\ ctl["popup"].rate.previousRate = 0
  /\ ctl["popup"].rate.lastFetchedByBackground # Null
  /\ ctl["popup"].rate.changePercentage = 0

\* C18: every record in the cache has currentRate > 0 and previousRate > 0.
C18_PositiveRates ==
  cache # NoEntry => cache.currentRate > 0 /\ cache.previousRate > 0

\* The number a body field denotes when it is a number or a numeric string.
IsNumeric(x) == x.tag = "number" \/ x = Str("36.50")
NumberOf(x) == IF x.tag = "number" THEN x.val ELSE 3650

\* C19: for every answer whose price and price_old are numbers or numeric
\* strings, fetchBCVRate returns a record with currentRate = price,
\* previousRate = price_old, change = price - price_old and changePercentage
\* = change / price_old * 100, which is 0 when price_old is 0.
C19_DerivedByFetcher ==
  (/\ fetcher.pc = "returned"
   /\ fetcher.response.kind = "json"
   /\ IsNumeric(fetcher.response.price)
   /\ IsNumeric(fetcher.response.price_old))
    => LET p == NumberOf(fetcher.response.price)
           q == NumberOf(fetcher.response.price_old)
       IN  /\ ~fetcher.result.thrown
           /\ fetcher.result.finite
           /\ fetcher.result.value.currentRate = p
           /\ fetcher.result.value.previousRate = q
           /\ fetcher.result.value.change = p - q
           /\ fetcher.result.value.changePercentage =
                IF q = 0 THEN 0 ELSE ((p - q) * 100000) \div q

\* C19 witness: price "36.50" with price_old 0 returned change 36.50 and
\* changePercentage 0.
C19_Witness ==
  /\ fetcher.pc = "returned"
  /\ fetcher.response.kind = "json"
  /\ fetcher.response.price = Str("36.50")
  /\ fetcher.response.price_old = Num(0)
  /\ ~fetcher.result.thrown
  /\ fetcher.result.value.change = 3650
  /\ fetcher.result.value.changePercentage = 0

\* The answers for which fetch() is to fail.
MustFail(r) ==
  \/ r.kind # "json"
  \/ r.price = Undefined
  \/ r.price_old = Undefined
  \/ parseFloat(r.price).nan \/ parseFloat(r.price).inf
  \/ parseFloat(r.price_old).nan \/ parseFloat(r.price_old).inf

\* C20: fetchBCVRate throws, returning no record, when the network call
\* fails, the status is not a success, price or price_old is missing, or
\* either parses to NaN or to an infinity; an invocation makes at most one
\* network call.
C20_FetcherFails ==
  /\ fetcher.calls <= 1
  /\ (fetcher.pc = "returned" /\ MustFail(fetcher.response)) => fetcher.result.thrown

\* C21: a record that fetchBCVRate returns is dated with the response's
\* fetch_date when the response carries a date string, and with the time of
\* the call's return when fetch_date is missing, null or empty.
C21_RecordDate ==
  (fetcher.pc = "returned" /\ ~fetcher.result.thrown /\ fetcher.result.finite)
    => fetcher.result.value.date =
         IF fetcher.response.fetch_date.tag = "date"
           THEN fetcher.response.fetch_date.val
           ELSE fetcher.at

\* C21 witness: a response dated minute 0, answered at minute 10, gave a
\* record dated minute 0.
C21_Witness ==
  /\ fetcher.pc = "returned"
  /\ fetcher.at = 10
  /\ fetcher.response.kind = "json"
  /\ fetcher.response.fetch_date = DateStr(0)
  /\ ~fetcher.result.thrown
  /\ fetcher.result.finite
  /\ fetcher.result.value.date = 0

\* What list() returns in the current state.
CurrentList == getConversionHistory(history.stored)

\* A value as a JSON text keeps it: a number that is not finite reads back
\* as null.
AsJson(x) == IF x = Infinity \/ x = NaN THEN JsNull ELSE x

\* The caller's fields of the i-th most recent accepted conversion.
CallerFields(i) == DOMAIN history.appended[i].conversion \ {"timestamp"}

Smaller(a, b) == IF a < b THEN a ELSE b

\* C22: the history has at most 10 records and is exactly the
\* min(n, 10) most recently accepted conversions since the last clear, newest
\* first, each with the caller's fields as JSON keeps them.
C22_HistoryBound ==
  /\ Len(CurrentList) <= 10
  /\ Len(CurrentList) = Smaller(Len(history.appended), 10)
  /\ \A i \in 1..Len(CurrentList) :
       \A f \in CallerFields(i) :
         CurrentList[i][f] = AsJson(history.appended[i].conversion[f])

\* C22 witness: eleven conversions were appended, the first one with an
\* infinite amount at minute 0 and the ten after it with finite amounts, the
\* last at minute 10; the list holds the ten finite ones.
C22_Witness ==
  /\ Len(history.appended) = 11
  /\ history.appended[11].conversion.toAmount = Infinity
  /\ history.appended[11].at = 0
  /\ history.appended[1].at = 10
  /\ Len(CurrentList) = 10
  /\ \A i \in 1..10 : CurrentList[i].toAmount = Num(3650)

\* C23: a list() that follows a clear(), with no conversion accepted in
\* between, returns the empty sequence whatever was stored before; the first
\* conversion accepted after a clear gives a history of length 1.
C23_ClearThenList ==
  /\ [](history.cleared => CurrentList = <<>>)
  /\ []((history.cleared /\ history.listed.done) => history.listed.value = <<>>)
  /\ [][ (history.cleared /\ ~history'.cleared /\ history'.appended # <<>>)
           => Len(getConversionHistory(history'.stored)) = 1 ]_vars

\* C23 witness: list() has returned the empty sequence after a clear.
C23_Witness ==
  /\ history.cleared
  /\ history.listed.done
  /\ history.listed.value = <<>>

\* C24: every listed record carries the time at which its append was
\* called, also when the caller brought a timestamp of its own, and the
\* timestamps do not increase from the front of the list to its back.
C24_TimestampAtInsertion ==
  /\ \A i \in 1..Len(CurrentList) :
       CurrentList[i].timestamp = DateStr(history.appended[i].at)
  /\ \A i, j \in 1..Len(CurrentList) :
       i < j => CurrentList[i].timestamp.val >= CurrentList[j].timestamp.val

\* C24 witness: a conversion that was handed over with the timestamp of
\* minute 61 is listed with minute 10, in front of one listed with minute 0.
C24_Witness ==
  /\ Len(CurrentList) = 2
  /\ "timestamp" \in DOMAIN history.appended[1].conversion
  /\ history.appended[1].conversion.timestamp = DateStr(61)
  /\ CurrentList[1].timestamp = DateStr(10)
  /\ CurrentList[2].timestamp = DateStr(0)

\* A positive finite number.
Positive(x) == IsFinite(x) /\ x.m > 0

\* A finite number in units of the smallest positive one, and the unit in
\* the last place of a finite number in the same units.
Scaled(x) == x.m * 2^(x.e - MinExponent)
Ulp(x) == 2^(x.e - MinExponent)

\* A finite number with all MantissaBits significant bits, which a product
\* that overflowed or lost bits to underflow is not.
Normal(x) == IsFinite(x) /\ x.m >= 2^(MantissaBits - 1)

\* C25: convertUSDtoBs returns amount * rate and convertBstoUSD returns
\* amount / rate; the result is 0 when the amount or the rate is NaN or
\* infinite and when dividing by a zero rate.
C25_Convert ==
  calc.op = "convert"
    => IF \/ ~IsFinite(calc.a)
          \/ ~IsFinite(calc.b)
          \/ (calc.direction = "bs-to-usd" /\ calc.b = Zero)
         THEN calc.result = Zero
         ELSE calc.result = IF calc.direction = "usd-to-bs"
                              THEN Times(calc.a, calc.b)
                              ELSE DividedBy(calc.a, calc.b)

\* C26 as stated: for every amount > 0 and rate > 0, converting to bolivars
\* and converting the result back with the same rate returns the amount.
C26_RoundTripExact ==
  (calc.op = "convert" /\ calc.back # Undefined
     /\ Positive(calc.a) /\ Positive(calc.b))
    => calc.back = calc.a

\* C26: for every amount > 0 and rate > 0 whose product neither overflows
\* nor underflows, converting to bolivars and converting the result back
\* with the same rate returns a number within one unit in the last place of
\* the amount.
C26_RoundTrip ==
  (calc.op = "convert" /\ calc.back # Undefined
     /\ Positive(calc.a) /\ Positive(calc.b) /\ Normal(calc.result))
    => /\ IsFinite(calc.back)
       /\ Scaled(calc.back) - Scaled(calc.a) <= Ulp(calc.a)
       /\ Scaled(calc.a) - Scaled(calc.back) <= Ulp(calc.a)

\* C26 witness: a round trip through a product that had to be rounded came
\* back one unit in the last place from the amount.
C26_Witness ==
  /\ calc.op = "convert"
  /\ calc.back # Undefined
  /\ Positive(calc.a) /\ Positive(calc.b) /\ Normal(calc.result)
  /\ IsFinite(calc.back)
  /\ calc.back # calc.a

\* C27: getRateChangeType(x, y) is "increase" iff x > y, "decrease" iff
\* x < y and "same" for x = y; it is "same" whenever x or y is NaN, an
\* infinity or not a number.
C27_RateChangeType ==
  calc.op = "changeType"
    => IF IsFinite(calc.a) /\ IsFinite(calc.b)
         THEN /\ calc.changeType = "increase" <=> LessThan(calc.b, calc.a)
              /\ calc.changeType = "decrease" <=> LessThan(calc.a, calc.b)
              /\ calc.a = calc.b => calc.changeType = "same"
         ELSE calc.changeType = "same"

\* C28: a manual refresh in the popup starts a live fetch whatever the cache
\* holds; the record fetched is stamped with the time of the fetch, the
\* write replaces the cache entry with it, and when the write has resolved
\* the popup shows that record marked live; when the fetch throws or the
\* write is refused the cache is left as it was.
C28_ManualRefresh ==
  [][\A c \in Controllers :
       HasRefresh(c) =>
         /\ (ctl[c].pc = "idle" /\ ctl'[c].open /\ ctl'[c].pc # "idle")
              => /\ ctl'[c].pc = "fetch"
                 /\ ctl'[c].rate = ctl[c].rate
                 /\ cache' = cache
         /\ (ctl[c].pc = "fetch" /\ ctl'[c].pc = "set")
              => /\ \E r \in Responses :
                      /\ ~fetchBCVRate(r, now).thrown
                      /\ ctl'[c].data = DataToStore(fetchBCVRate(r, now).value, now)
                 /\ ctl'[c].data.lastFetchedByBackground = now
                 /\ cache' = cache
         /\ (ctl[c].pc = "set" /\ ctl'[c].pc = "written")
              => cache' = ctl[c].data
         /\ (ctl[c].pc = "written" /\ ctl'[c].pc = "idle")
              => /\ ctl'[c].rate = UpdateRate(c, ctl[c].data)
                 /\ ~ctl'[c].isCachedData
                 /\ ctl'[c].view = "data"
                 /\ cache' = cache
         /\ (ctl[c].pc \in {"fetch", "set"} /\ ctl'[c].pc = "fallback")
              => /\ cache' = cache
                 /\ ctl'[c].view = "error"]_vars

\* C28 witness: the popup, showing the entry stored at 0, was refreshed at
\* 10 and its write has replaced the entry with the one fetched at 10.
C28_Witness ==
  /\ ctl["popup"].pc = "written"
  /\ ctl["popup"].rate.lastFetchedByBackground = 0
  /\ ctl["popup"].data # NoEntry
  /\ ctl["popup"].data.lastFetchedByBackground = 10
  /\ cache = ctl["popup"].data

\* C29: a step that changes the conversion history or the list shown
\* leaves the cache entry as it was and adds no change event to any inbox,
\* and a step that changes the cache, an inbox, the alarm, the clock, a
\* task of the synchronizer or the popup's loading leaves the history as it
\* was.
C29_Independence ==
  [][/\ (history' # history \/ form'.shown # form.shown)
          => /\ cache' = cache
             /\ \A c \in Controllers : Len(inbox'[c]) <= Len(inbox[c])
     /\ (cache' # cache \/ inbox' # inbox \/ alarm' # alarm \/ now' # now
           \/ bg' # bg \/ ctl' # ctl)
          => history' = history]_vars

\* C29 witness: the conversion recorded at 0 is still stored and shown
\* when the cache holds the entry written at 10.
C29_Witness ==
  /\ history.stored.present
  /\ Len(history.stored.list) = 1
  /\ history.stored.list[1].timestamp = DateStr(0)
  /\ form.shown = history.stored.list
  /\ cache # NoEntry
  /\ cache.lastFetchedByBackground = 10

\* C30: when the popup's storage.onChanged listener handles a change event,
\* the conversion mode, the amount, the result, the inputs and the history
\* list are what they were, and of the popup's other state only the rate
\* fields, the cached flag and the rate section change.
C30_NotificationFrame ==
  [][(/\ ctl["popup"].open
      /\ ctl'["popup"].open
      /\ inbox["popup"] # <<>>
      /\ inbox'["popup"] = Tail(inbox["popup"]))
       => /\ form'.mode = form.mode
          /\ form'.amount = form.amount
          /\ form'.result = form.result
          /\ form' = form
          /\ ctl'["popup"].rate = UpdateRate("popup", Head(inbox["popup"]))
          /\ ctl'["popup"].pc = ctl["popup"].pc
          /\ ctl'["popup"].data = ctl["popup"].data
          /\ ctl'["popup"].result = ctl["popup"].result
          /\ history' = history]_vars

\* C30 witness: 36.50 dollars were converted at 0 with the rate 36.50; the
\* popup has since taken the entry written at 10 from a change event and
\* still holds the amount and the result 1332.25.
C30_Witness ==
  /\ form.mode = "usd-to-bs"
  /\ form.fromInput = "36.50"
  /\ form.amount = Num(3650)
  /\ form.result = Num(133225)
  /\ history.stored.present
  /\ history.stored.list[1].timestamp = DateStr(0)
  /\ ctl["popup"].isCachedData
  /\ ctl["popup"].rate.lastFetchedByBackground = 10

\* C31: when a controller's listener is run on a change event of another
\* storage area, of another key, or of the rate key with no new value, the
\* controller's state, what it displays and the popup's conversion section
\* are what they were; on a change of the rate key in 'local' with a new
\* value it takes that value.
C31_ListenerFilter ==
  [][\A c \in Controllers :
       (/\ ctl[c].open
        /\ ctl'[c].open
        /\ inbox[c] # <<>>
        /\ inbox'[c] = Tail(inbox[c]))
         => IF /\ "area" \in DOMAIN Head(inbox[c])
               /\ \/ Head(inbox[c]).area # "local"
                  \/ Head(inbox[c]).key # "bcvRateData"
                  \/ Head(inbox[c]).newValue = NoEntry
              THEN /\ ctl'[c].rate = ctl[c].rate
                   /\ ctl'[c].isCachedData = ctl[c].isCachedData
                   /\ ctl'[c].view = ctl[c].view
                   /\ ctl'[c].pc = ctl[c].pc
                   /\ ctl'[c].data = ctl[c].data
                   /\ ctl'[c].result = ctl[c].result
                   /\ form' = form
              ELSE /\ ctl'[c].rate = UpdateRate(c, Head(inbox[c]))
                   /\ ctl'[c].view = "data"]_vars

\* C31 witness: the side panel shows the rate it fetched, marked live, the
\* rate entry has since been removed from storage, and the event of the
\* removal has been delivered to it.
C31_Witness ==
  /\ ctl["sidepanel"].open
  /\ ctl["sidepanel"].pc = "idle"
  /\ ctl["sidepanel"].view = "data"
  /\ ~ctl["sidepanel"].isCachedData
  /\ cache = NoEntry
  /\ inbox["sidepanel"] = <<>>

\* C32: the step in which the live fetch of a controller fails (on the
\* popup's first load, on its manual refresh, on the side panel's first
\* load) leaves the cache entry as it was and sends no change event; the
\* controller shows the error.
C32_FailedFetchFrame ==
  [][\A c \in Controllers :
       (ctl[c].pc = "fetch" /\ ctl'[c].open /\ ctl'[c].pc \notin {"fetch", "set"})
         => /\ cache' = cache
            /\ inbox' = inbox
            /\ ctl'[c].view = "error"
            /\ ctl'[c].rate = ctl[c].rate]_vars

\* C32 witness: the side panel's live fetch has failed while the cache
\* holds an entry that another writer stored.
C32_Witness ==
  /\ ctl["sidepanel"].pc = "idle"
  /\ ctl["sidepanel"].view = "error"
  /\ cache # NoEntry
  /\ cache.currentRate = 3650

\* C33: whenever the alarm 'fetchRateAlarm' exists its period is 60
\* minutes, whether the install listener, the startup verification or the
\* re-arm after a successful fetch created it, in whatever order.
C33_AlarmPeriod ==
  alarm # NoAlarm => alarm.periodInMinutes = 60

\* C33 witness: the alarm that exists is the one the re-arm after a
\* successful fetch created (it has no delay), the host having dropped the
\* one created at installation.
C33_Witness ==
  /\ alarm # NoAlarm
  /\ DOMAIN alarm = {"periodInMinutes"}
  /\ \E k \in Kinds : bg[k].rearm = "ran"

\* C34: every write of the cache entry, by the synchronizer, the popup or
\* the side panel, stores a lastFetchedByBackground that is not earlier
\* than the one it replaces.
C34_StampNeverDecreases ==
  [][(cache # NoEntry /\ cache' # NoEntry)
       => cache'.lastFetchedByBackground >= cache.lastFetchedByBackground]_vars

\* C35: every record of the stored history has a rate > 0 and a toAmount
\* that is fromAmount * rate (from USD) or fromAmount / rate (from Bs); no
\* record was appended while the popup's currentRate was 0.
C35_RecordsConsistent ==
  \A i \in 1..Len(CurrentList) :
    LET rec == CurrentList[i]
    IN  /\ rec.rate.tag = "number"
        /\ rec.rate.val > 0
        /\ rec.toAmount = IF rec.fromCurrency = Str("USD")
                            THEN Times(rec.fromAmount, rec.rate)
                            ELSE DividedBy(rec.fromAmount, rec.rate)

\* C36: a step of the popup appends to the history only when the amount in
\* the active input parses to a number other than 0, and then it appends
\* exactly one record, of the amount and the result it stores; and while
\* the popup is open its stored amount and result are set only by such a
\* step.  With an empty,
\* non-numeric or zero amount, therefore, handleConvert changes neither
\* the history nor the stored amount and result.
C36_ConvertGuard ==
  [][LET p == parseFloat(Str(ActiveInput(form)))
         valid == ~p.nan /\ (p.inf \/ p.val # 0)
         old == getConversionHistory(history.stored)
         new == getConversionHistory(history'.stored)
     IN  /\ Len(new) > Len(old)
              => /\ valid
                 /\ Len(new) = Len(old) + 1
                 /\ Tail(new) = old
                 /\ new[1].fromAmount = Num(p.val)
                 /\ form'.amount = new[1].fromAmount
                 /\ form'.result = new[1].toAmount
         /\ (/\ ctl'["popup"].open
             /\ form'.amount # form.amount \/ form'.result \notin {form.result, JsNull})
              => Len(new) = Len(old) + 1]_vars

\* C36 witness: 36.50 bolivars were converted with the rate 36.50: the
\* result 1.00 is stored and the history holds the one record of it.
C36_Witness ==
  /\ form.mode = "bs-to-usd"
  /\ form.toInput = "36.50"
  /\ form.amount = Num(3650)
  /\ form.result = Num(100)
  /\ Len(CurrentList) = 1
  /\ CurrentList[1].fromCurrency = Str("Bs")
  /\ CurrentList[1].toAmount = Num(100)

\* C37: addConversionToHistory called with no item, or with an item whose
\* fromAmount or toAmount is not a number, returns undefined and leaves
\* the stored history as it was; called with a valid item it returns the
\* updated history, which is what getConversionHistory returns next.
C37_AppendReturn ==
  [][(history'.returned.called /\ history'.returned # history.returned)
       => LET arg == history'.returned.arg
              valid == /\ arg # Undefined
                       /\ "fromAmount" \in DOMAIN arg /\ TypeofNumber(arg.fromAmount)
                       /\ "toAmount" \in DOMAIN arg /\ TypeofNumber(arg.toAmount)
          IN  IF valid
                THEN /\ history'.returned.defined
                     /\ history'.returned.value = getConversionHistory(history'.stored)
                ELSE /\ ~history'.returned.defined
                     /\ history'.stored = history.stored]_vars

\* C38: while nothing is stored under the history key, or what is stored
\* cannot be parsed, getConversionHistory returns the empty list, and a
\* valid item appended then leaves a stored history of exactly one record,
\* that item.
C38_EmptyOrUnparsable ==
  /\ []((history.listed.done /\ (history.stored = NoItem \/ "list" \notin DOMAIN history.stored))
          => history.listed.value = <<>>)
  /\ [][(/\ history.stored = NoItem \/ "list" \notin DOMAIN history.stored
         /\ history'.returned.called
         /\ history'.returned.defined
         /\ history'.returned # history.returned)
          => /\ history'.stored.present
             /\ "list" \in DOMAIN history'.stored
             /\ Len(history'.stored.list) = 1
             /\ history'.stored.list[1].fromAmount = history'.returned.arg.fromAmount]_vars

\* C38 witness: the stored value cannot be parsed and the history has been
\* listed.
C38_Witness ==
  /\ "list" \notin DOMAIN history.stored
  /\ history.listed.done
  /\ history.listed.value = <<>>

====
